---- MODULE Spec2Model ----
(***************************************************************************)
(* The Wayland clipboard owner of adoctl: the wire codec, the buffered     *)
(* connection, the Serve session (bootstrap, offer, claim, confirm, serve) *)
(* and the process launcher that re-executes the binary as a detached      *)
(* daemon.                                                                 *)
(*                                                                         *)
(* A Go string or []byte is a sequence of bytes (0..255).  The socket is   *)
(* modelled one message at a time: the peer's events travel on wire[d],    *)
(* a receive moves a batch of them (with the descriptors that came along)  *)
(* into the connection's inBuf and pendingFds, and readMsg slices one      *)
(* message off.                                                            *)
(***************************************************************************)
EXTENDS Integers, Sequences, FiniteSets, TLC

(***************************************************************************)
(* Bounds of the model.                                                    *)
(***************************************************************************)
MaxCalls == 2
MaxEvents == 4
MaxPastes == 2
MaxLen == 4
MaxOps == 2
MaxFrames == 2
MaxTotal == 3
MaxRequests == 3
MaxWorkers == 2

Procs == 1..MaxCalls

(***************************************************************************)
(* Fixed Wayland object ids (protocol.go: const block).                    *)
(***************************************************************************)
idDisplay == 1
idRegistry == 2
idCallback1 == 3
idSeat == 4
idDCManager == 5
idDCSource == 6
idDCDevice == 7
idCallback2 == 8

NoFd == -1

(***************************************************************************)
(* String literals of the source, as bytes.                                *)
(***************************************************************************)
WlSeat == <<119, 108, 95, 115, 101, 97, 116>>
DCManagerV1 == <<122, 119, 108, 114, 95, 100, 97, 116, 97, 95, 99, 111, 110, 116, 114, 111, 108, 95, 109, 97, 110, 97, 103, 101, 114, 95, 118, 49>>
TextHtml == <<116, 101, 120, 116, 47, 104, 116, 109, 108>>
TextPlainUtf8 == <<116, 101, 120, 116, 47, 112, 108, 97, 105, 110, 59, 99, 104, 97, 114, 115, 101, 116, 61, 117, 116, 102, 45, 56>>
TextPlain == <<116, 101, 120, 116, 47, 112, 108, 97, 105, 110>>
Utf8String == <<85, 84, 70, 56, 95, 83, 84, 82, 73, 78, 71>>
StringAtom == <<83, 84, 82, 73, 78, 71>>

(***************************************************************************)
(* Strings the environment supplies: another interface, a MIME type nobody *)
(* offers, clipboard contents.                                             *)
(***************************************************************************)
WlShm == <<119, 108, 95, 115, 104, 109>>
XUnknown == <<97, 112, 112, 108, 105, 99, 97, 116, 105, 111, 110, 47, 120, 45, 117, 110, 107, 110, 111, 119, 110>>
Hello == <<104, 101, 108, 108, 111>>
Hi == <<104, 105>>
BoldHi == <<60, 98, 62, 104, 105, 60, 47, 98, 62>>
Bye == <<98, 121, 101>>

(***************************************************************************)
(* Binary wire codec.                                                      *)
(***************************************************************************)
encodeUint32(v) ==
    <<v % 256, (v \div 256) % 256, (v \div 65536) % 256, (v \div 16777216) % 256>>

\* le.Uint32
leUint32(b) == b[1] + 256 * b[2] + 65536 * b[3] + 16777216 * b[4]

Zeros(n) == [i \in 1..n |-> 0]

\* (x + 3) &^ 3
Align4(x) == ((x + 3) \div 4) * 4

\* Mutant: no null terminator is appended.
encodeStringNoTerminator(s) ==
    encodeUint32(Len(s)) \o s \o Zeros(Align4(Len(s)) - Len(s))

encodeString(s) ==
    LET sBytes == Append(s, 0)
        length == Len(sBytes)
        padded == Align4(length)
    IN  encodeUint32(length) \o sBytes \o Zeros(padded - length)

concat(slices) ==
    LET RECURSIVE cat(_)
        cat(i) == IF i > Len(slices) THEN <<>> ELSE slices[i] \o cat(i + 1)
    IN  cat(1)

\* Mutant: the remaining bytes are compared with the declared length, not
\* with the length rounded up to a multiple of 4.
decodeStringUnpadded(data) ==
    IF Len(data) < 4
    THEN [s |-> <<>>, rest |-> data, err |-> TRUE]
    ELSE LET length == leUint32(SubSeq(data, 1, 4))
             body == SubSeq(data, 5, Len(data))
         IN  IF length = 0
             THEN [s |-> <<>>, rest |-> body, err |-> FALSE]
             ELSE IF Len(body) < length
             THEN [s |-> <<>>, rest |-> body, err |-> TRUE]
             ELSE [s |-> SubSeq(body, 1, length - 1),
                   rest |-> SubSeq(body, Align4(length) + 1, Len(body)),
                   err |-> FALSE]

decodeString(data) ==
    IF Len(data) < 4
    THEN [s |-> <<>>, rest |-> data, err |-> TRUE]
    ELSE LET length == leUint32(SubSeq(data, 1, 4))
             body == SubSeq(data, 5, Len(data))
             padded == Align4(length)
         IN  IF length = 0
             THEN [s |-> <<>>, rest |-> body, err |-> FALSE]
             ELSE IF Len(body) < padded
             THEN [s |-> <<>>, rest |-> body, err |-> TRUE]
             ELSE [s |-> SubSeq(body, 1, length - 1),
                   rest |-> SubSeq(body, padded + 1, Len(body)),
                   err |-> FALSE]

(***************************************************************************)
(* State.                                                                  *)
(*   pc, ret      position of each daemon in Serve and what Serve returned *)
(*   formats      the offer table handed to Serve                          *)
(*   todo         keys the range loop over formats has not yet visited     *)
(*   conn         the waylandConn: socket, inBuf, pendingFds               *)
(*   names        seatName, dcManagerName, seatFound, dcManagerFound       *)
(*   wire         events written by the peer and not yet received          *)
(*   peerClosed   the peer has closed its end of the socket                *)
(*   sent         request frames the scripted peer has received, in order  *)
(*   fds          the descriptors passed over the socket                   *)
(*   env, listen  XDG_RUNTIME_DIR / WAYLAND_DISPLAY, and the peer's socket *)
(*   harness      who is at the other end: a scripted peer or a compositor *)
(*   script       what the scripted peer has emitted so far                *)
(*   comp, reqs, offered   the compositor, its undispatched requests and   *)
(*                the MIME types each client's source has offered          *)
(*   calls, clipWrites, stdin   WriteMultiFormat calls, the plain-text     *)
(*                clipboard writes and the payload handed to each child    *)
(***************************************************************************)
VARIABLES pc, ret, formats, todo, conn, names, wire, peerClosed, sent, fds,
          env, listen, harness, script, comp, reqs, offered,
          calls, clipWrites, stdin

vars == <<pc, ret, formats, todo, conn, names, wire, peerClosed, sent, fds,
          env, listen, harness, script, comp, reqs, offered,
          calls, clipWrites, stdin>>

envVars == <<env, listen, harness>>
peerVars == <<script, comp>>
launchVars == <<calls, clipWrites, stdin>>

RuntimeDir == "/run/user/1000"

(***************************************************************************)
(* Descriptors received over the socket: a pipe's write end.  data is the  *)
(* sequence of write calls made on it.                                     *)
(***************************************************************************)
NoMsg == [obj |-> 0, op |-> 0, payload |-> <<>>, at |-> "none"]

\* sentWith is the event the peer attached the descriptor to; gotWith is the
\* message readMsg returned it with, and the loop that was reading.
NewFd(ev) == [open |-> TRUE, data |-> <<>>, closes |-> 0,
              sentWith |-> [obj |-> ev.obj, op |-> ev.op, payload |-> ev.payload],
              gotWith |-> NoMsg]

\* Records that readMsg result r handed its descriptor to the loop `at`.
Got(f, r, at) ==
    IF r.fd >= 0
    THEN [f EXCEPT ![r.fd].gotWith = [obj |-> r.objectID, op |-> r.opcode,
                                      payload |-> r.payload, at |-> at]]
    ELSE f

SysWrite(f, fd, data) ==
    IF f[fd].open THEN [f EXCEPT ![fd].data = Append(@, data)] ELSE f

SysClose(f, fd) ==
    [f EXCEPT ![fd] = [@ EXCEPT !.open = FALSE, !.closes = @ + 1]]

(***************************************************************************)
(* The connection.                                                         *)
(***************************************************************************)
NoConn == [fd |-> "none", live |-> FALSE, closes |-> 0,
           inBuf |-> <<>>, pendingFds |-> <<>>]

\* newConn: socket, connect.
newConn(sockOk, connectOk) ==
    IF ~sockOk THEN NoConn
    ELSE IF ~connectOk THEN [NoConn EXCEPT !.fd = "closed", !.closes = 1]
    ELSE [NoConn EXCEPT !.fd = "open", !.live = TRUE]

close(c) == [c EXCEPT !.fd = "closed", !.closes = @ + 1]

\* The request frame sendMsg builds: size is a uint16.
Frame(objectID, opcode, args) ==
    LET size == (8 + Len(args)) % 65536
    IN  [obj |-> objectID, op |-> opcode, size |-> size,
         args |-> SubSeq(args, 1, size - 8)]

\* Requests whose handling by the compositor is observable by a client.
Visible(f) ==
    \/ f.obj = idDisplay
    \/ f.obj = idDCDevice /\ f.op = 0

\* The compositor takes a request off the socket: one that only updates its
\* own record of the client is applied at once, the others wait for dispatch.
CompositorReceive(d, f) ==
    /\ reqs' = [reqs EXCEPT ![d] = IF Visible(f) THEN Append(@, f) ELSE @]
    /\ offered' = [offered EXCEPT ![d] =
                     IF f.obj = idDCSource /\ f.op = 0
                     THEN @ \cup {decodeString(f.args).s} ELSE @]

sendMsg(d, objectID, opcode, args) ==
    IF harness = "script"
    THEN /\ sent' = [sent EXCEPT ![d] = Append(@, Frame(objectID, opcode, args))]
         /\ UNCHANGED <<reqs, offered>>
    ELSE /\ CompositorReceive(d, Frame(objectID, opcode, args))
         /\ UNCHANGED sent

\* readMsg when inBuf holds a complete message, or the receive failed.
readMsg(c) ==
    IF c.inBuf = <<>>
    THEN [err |-> TRUE, objectID |-> 0, opcode |-> 0, payload |-> <<>>,
          fd |-> NoFd, c |-> c]
    ELSE [err |-> FALSE,
          objectID |-> Head(c.inBuf).obj,
          opcode |-> Head(c.inBuf).op,
          payload |-> Head(c.inBuf).payload,
          fd |-> IF Len(c.pendingFds) > 0 THEN Head(c.pendingFds) ELSE NoFd,
          c |-> [c EXCEPT !.inBuf = Tail(@),
                          !.pendingFds = IF Len(@) > 0 THEN Tail(@) ELSE @]]

\* readMsg returns: a message is buffered, or Recvmsg reports an orderly close.
Readable(d) ==
    \/ conn[d].inBuf # <<>>
    \/ wire[d] = <<>> /\ peerClosed[d]

FdsOf(msgs) ==
    LET RECURSIVE take(_)
        take(i) == IF i > Len(msgs) THEN <<>>
                   ELSE (IF msgs[i].fd >= 0 THEN <<msgs[i].fd>> ELSE <<>>) \o take(i + 1)
    IN  take(1)

Strip(msgs) ==
    [i \in 1..Len(msgs) |->
        [obj |-> msgs[i].obj, op |-> msgs[i].op, payload |-> msgs[i].payload]]

\* readMsg's blocking receive: inBuf holds no complete message; one Recvmsg
\* appends everything that has arrived (the events here stay far below its
\* 4096-byte buffer) and queues the descriptors that came with it.
Recv(d) ==
    /\ pc[d] \in {"globals", "confirm", "serve"}
    /\ conn[d].inBuf = <<>>
    /\ wire[d] # <<>>
    /\ conn' = [conn EXCEPT ![d] =
                  [@ EXCEPT !.inBuf = @ \o Strip(wire[d]),
                            !.pendingFds = @ \o FdsOf(wire[d])]]
    /\ wire' = [wire EXCEPT ![d] = <<>>]
    /\ UNCHANGED <<pc, ret, formats, todo, names, peerClosed, sent, fds,
                   envVars, peerVars, reqs, offered, launchVars>>

(***************************************************************************)
(* Serve.                                                                  *)
(***************************************************************************)
\* Mutant: no `defer c.close()`.
ReturnLeavesOpen(d, v, c) ==
    /\ pc' = [pc EXCEPT ![d] = "done"]
    /\ ret' = [ret EXCEPT ![d] = v]
    /\ conn' = [conn EXCEPT ![d] = c]

\* A return after the connection exists: the deferred c.close() runs.
Return(d, v, c) ==
    /\ pc' = [pc EXCEPT ![d] = "done"]
    /\ ret' = [ret EXCEPT ![d] = v]
    /\ conn' = [conn EXCEPT ![d] = close(c)]

\* Mutant: WAYLAND_DISPLAY is not consulted.
SockPathDefaultDisplay(e) == <<e.XDG_RUNTIME_DIR, "wayland-0">>

\* filepath.Join(runtimeDir, display), display defaulting to "wayland-0".
SockPath(e) ==
    <<e.XDG_RUNTIME_DIR,
      IF e.WAYLAND_DISPLAY = "" THEN "wayland-0" ELSE e.WAYLAND_DISPLAY>>

PeerUp == harness = "script" \/ comp.up

\* Serve up to `defer c.close()`.
Connect(d) ==
    /\ pc[d] = "entry"
    /\ IF env.XDG_RUNTIME_DIR = ""
       THEN /\ pc' = [pc EXCEPT ![d] = "done"]
            /\ ret' = [ret EXCEPT ![d] = "XDG_RUNTIME_DIR not set"]
            /\ UNCHANGED conn
       ELSE \E sockOk \in BOOLEAN :
              LET c == newConn(sockOk, PeerUp /\ SockPath(env) = listen)
              IN  /\ conn' = [conn EXCEPT ![d] = c]
                  /\ pc' = [pc EXCEPT ![d] = IF c.live THEN "get_registry" ELSE "done"]
                  /\ ret' = [ret EXCEPT ![d] = IF c.live THEN @ ELSE "connect"]
    /\ UNCHANGED <<formats, todo, names, wire, peerClosed, sent, fds,
                   envVars, peerVars, reqs, offered, launchVars>>

\* One sendMsg of Serve and its error return.
Request(d, here, objectID, opcode, args, next) ==
    /\ pc[d] = here
    /\ IF peerClosed[d]
       THEN /\ Return(d, "write", conn[d])
            /\ UNCHANGED <<sent, reqs, offered>>
       ELSE /\ sendMsg(d, objectID, opcode, args)
            /\ pc' = [pc EXCEPT ![d] = next]
            /\ UNCHANGED <<ret, conn>>
    /\ UNCHANGED <<formats, names, wire, peerClosed, fds, envVars, peerVars,
                   launchVars>>

GetRegistry(d) ==
    /\ Request(d, "get_registry", idDisplay, 1, encodeUint32(idRegistry), "sync1")
    /\ UNCHANGED todo

Sync1(d) ==
    /\ Request(d, "sync1", idDisplay, 0, encodeUint32(idCallback1), "globals")
    /\ UNCHANGED todo

\* Mutant: a name once captured is kept.
GlobalFirstWins(n, payload) ==
    IF Len(payload) < 4 THEN n
    ELSE LET name == leUint32(SubSeq(payload, 1, 4))
             dec == decodeString(SubSeq(payload, 5, Len(payload)))
         IN  IF dec.err THEN n
             ELSE IF dec.s = WlSeat /\ ~n.seatFound
             THEN [n EXCEPT !.seatName = name, !.seatFound = TRUE]
             ELSE IF dec.s = DCManagerV1 /\ ~n.dcManagerFound
             THEN [n EXCEPT !.dcManagerName = name, !.dcManagerFound = TRUE]
             ELSE n

\* The body of `case objectID == idRegistry && opcode == 0`.
Global(n, payload) ==
    IF Len(payload) < 4 THEN n
    ELSE LET name == leUint32(SubSeq(payload, 1, 4))
             dec == decodeString(SubSeq(payload, 5, Len(payload)))
         IN  IF dec.err THEN n
             ELSE IF dec.s = WlSeat
             THEN [n EXCEPT !.seatName = name, !.seatFound = TRUE]
             ELSE IF dec.s = DCManagerV1
             THEN [n EXCEPT !.dcManagerName = name, !.dcManagerFound = TRUE]
             ELSE n

\* Mutant: the loop is left as soon as both globals have been seen.
GlobalsDoneWhenFound(r, n) ==
    \/ r.objectID = idCallback1 /\ r.opcode = 0
    \/ n.seatFound /\ n.dcManagerFound

\* `case objectID == idCallback1 && opcode == 0`: leave the loop.
GlobalsDone(r, n) == r.objectID = idCallback1 /\ r.opcode = 0

\* One iteration of the loop that collects globals until callback 1 is done.
Globals(d) ==
    /\ pc[d] = "globals"
    /\ Readable(d)
    /\ LET r == readMsg(conn[d])
       IN  IF r.err
           THEN /\ Return(d, "read", conn[d])
                /\ UNCHANGED <<names, fds>>
           ELSE /\ fds' = IF r.fd >= 0
                          THEN SysClose(Got(fds, r, "globals"), r.fd) ELSE fds
                /\ conn' = [conn EXCEPT ![d] = r.c]
                /\ ret' = ret
                /\ names' = [names EXCEPT ![d] =
                               IF r.objectID = idRegistry /\ r.opcode = 0
                               THEN Global(@, r.payload) ELSE @]
                /\ pc' = [pc EXCEPT ![d] =
                            IF GlobalsDone(r, names[d])
                            THEN "afterFirstSync" ELSE @]
    /\ UNCHANGED <<formats, todo, wire, peerClosed, sent, envVars, peerVars,
                   reqs, offered, launchVars>>

\* Mutant: only the seat is checked.
MissingGlobalSeatOnly(n) == IF ~n.seatFound THEN "wl_seat not found" ELSE ""

\* The checks after the first sync: the error to return, "" for none.
MissingGlobal(n) ==
    IF ~n.seatFound THEN "wl_seat not found"
    ELSE IF ~n.dcManagerFound THEN "zwlr_data_control_manager_v1 not found"
    ELSE ""

AfterFirstSync(d) ==
    /\ pc[d] = "afterFirstSync"
    /\ IF MissingGlobal(names[d]) # ""
       THEN Return(d, MissingGlobal(names[d]), conn[d])
       ELSE /\ pc' = [pc EXCEPT ![d] = "bind_seat"]
            /\ UNCHANGED <<ret, conn>>
    /\ UNCHANGED <<formats, todo, names, wire, peerClosed, sent, fds, envVars,
                   peerVars, reqs, offered, launchVars>>

BindSeat(d) ==
    /\ Request(d, "bind_seat", idRegistry, 0,
               concat(<<encodeUint32(names[d].seatName), encodeString(WlSeat),
                        encodeUint32(1), encodeUint32(idSeat)>>),
               "bind_manager")
    /\ UNCHANGED todo

BindManager(d) ==
    /\ Request(d, "bind_manager", idRegistry, 0,
               concat(<<encodeUint32(names[d].dcManagerName),
                        encodeString(DCManagerV1),
                        encodeUint32(2), encodeUint32(idDCManager)>>),
               "create_data_source")
    /\ UNCHANGED todo

\* Mutant: the loop is left after its first iteration.
OfferNextBreak(t) == "get_data_device"

\* Where the range loop over formats goes with `t` keys left.
OfferNext(t) == IF t = {} THEN "get_data_device" ELSE "offer"

CreateDataSource(d) ==
    /\ Request(d, "create_data_source", idDCManager, 0, encodeUint32(idDCSource),
               OfferNext(DOMAIN formats[d]))
    /\ todo' = [todo EXCEPT ![d] = DOMAIN formats[d]]

\* One iteration of `for mimeType := range formats`: Go leaves the order open.
Offer(d) ==
    \E mimeType \in todo[d] :
        /\ Request(d, "offer", idDCSource, 0, encodeString(mimeType),
                   OfferNext(todo[d] \ {mimeType}))
        /\ todo' = [todo EXCEPT ![d] = @ \ {mimeType}]

\* Mutant: set_selection is skipped.
GetDataDeviceThenSync(d) ==
    /\ Request(d, "get_data_device", idDCManager, 1,
               concat(<<encodeUint32(idDCDevice), encodeUint32(idSeat)>>),
               "sync2")
    /\ UNCHANGED todo

GetDataDevice(d) ==
    /\ Request(d, "get_data_device", idDCManager, 1,
               concat(<<encodeUint32(idDCDevice), encodeUint32(idSeat)>>),
               "set_selection")
    /\ UNCHANGED todo

SetSelection(d) ==
    /\ Request(d, "set_selection", idDCDevice, 0, encodeUint32(idDCSource), "sync2")
    /\ UNCHANGED todo

\* Mutant: the second sync reuses the first callback's id.
Sync2ReusesCallback1(d) ==
    /\ Request(d, "sync2", idDisplay, 0, encodeUint32(idCallback1), "confirm")
    /\ UNCHANGED todo

Sync2(d) ==
    /\ Request(d, "sync2", idDisplay, 0, encodeUint32(idCallback2), "confirm")
    /\ UNCHANGED todo

\* Mutant: the object of the event is not compared.
ConfirmDoneAnyObject(r) == r.opcode = 0

\* `if objectID == idCallback2 && opcode == 0 { break }`
ConfirmDone(r) == r.objectID = idCallback2 /\ r.opcode = 0

\* Mutant: the confirm loop treats a failed read as the event loop does.
ConfirmReadErrorNil == "nil"

\* `if err != nil { return err }`: what the confirm loop returns on a failed read.
ConfirmReadError == "read"

\* One iteration of the loop that waits for callback 2's done.
Confirm(d) ==
    /\ pc[d] = "confirm"
    /\ Readable(d)
    /\ LET r == readMsg(conn[d])
       IN  IF r.err
           THEN /\ Return(d, ConfirmReadError, conn[d])
                /\ UNCHANGED fds
           ELSE /\ fds' = IF r.fd >= 0
                          THEN SysClose(Got(fds, r, "confirm"), r.fd) ELSE fds
                /\ conn' = [conn EXCEPT ![d] = r.c]
                /\ ret' = ret
                /\ pc' = [pc EXCEPT ![d] =
                            IF ConfirmDone(r) THEN "serve" ELSE @]
    /\ UNCHANGED <<formats, todo, names, wire, peerClosed, sent, envVars,
                   peerVars, reqs, offered, launchVars>>

\* Mutant: a recognised type is written and the descriptor is left open.
ServeSendNoCloseAfterWrite(f, table, payload, fd) ==
    LET mimeType == decodeString(payload).s
    IN  IF fd >= 0
        THEN IF mimeType \in DOMAIN table
             THEN SysWrite(f, fd, table[mimeType]) ELSE SysClose(f, fd)
        ELSE f

\* Mutant: the descriptor is closed only inside the `ok` branch.
ServeSendCloseOnlyKnown(f, table, payload, fd) ==
    LET mimeType == decodeString(payload).s
    IN  IF fd >= 0 /\ mimeType \in DOMAIN table
        THEN SysClose(SysWrite(f, fd, table[mimeType]), fd)
        ELSE f

\* Mutant: `if err != nil { continue }` after decodeString.
ServeSendSkipUndecodable(f, table, payload, fd) ==
    LET dec == decodeString(payload)
    IN  IF fd >= 0 /\ ~dec.err
        THEN SysClose(IF dec.s \in DOMAIN table
                      THEN SysWrite(f, fd, table[dec.s]) ELSE f, fd)
        ELSE f

\* `case 0` of the event loop: answer a send event.
ServeSend(f, table, payload, fd) ==
    LET mimeType == decodeString(payload).s
    IN  IF fd >= 0
        THEN SysClose(IF mimeType \in DOMAIN table
                      THEN SysWrite(f, fd, table[mimeType]) ELSE f, fd)
        ELSE f

\* Mutant: a `default: return nil` case.
ServeSwitchDefaultReturn(opcode) == IF opcode = 0 THEN "continue" ELSE "return"

\* Mutant: no case for cancelled.
ServeSwitchNoCancelled(opcode) == "continue"

\* What the event loop does with a data-source event: "return" or "continue".
ServeSwitch(opcode) == IF opcode = 1 THEN "return" ELSE "continue"

\* Mutant: events for other objects reach the switch.
ServeSkipsNothing(objectID) == FALSE

\* `if objectID != idDCSource { ...; continue }`
ServeSkips(objectID) == objectID # idDCSource

\* Mutant: the skipped event's descriptor is dropped without a close.
ServeSkipLeavesOpen(f, fd) == f

\* `if fd >= 0 { syscall.Close(fd) }` for a skipped event.
ServeSkip(f, fd) == IF fd >= 0 THEN SysClose(f, fd) ELSE f

\* Mutant: `return err`, as in the loops before.
ServeReadErrorReturned == "read"

\* `if err != nil { return nil }`: what the event loop returns on a failed read.
ServeReadError == "nil"

\* One iteration of the event loop.
ServeLoop(d) ==
    /\ pc[d] = "serve"
    /\ Readable(d)
    /\ LET r == readMsg(conn[d])
       IN  IF r.err
           THEN /\ Return(d, ServeReadError, conn[d])
                /\ UNCHANGED fds
           ELSE IF ServeSkips(r.objectID)
           THEN /\ fds' = ServeSkip(Got(fds, r, "serve"), r.fd)
                /\ conn' = [conn EXCEPT ![d] = r.c]
                /\ UNCHANGED <<pc, ret>>
           ELSE IF ServeSwitch(r.opcode) = "return"
           THEN /\ Return(d, "nil", r.c)
                /\ fds' = Got(fds, r, "serve")
           ELSE /\ fds' = IF r.opcode = 0
                          THEN ServeSend(Got(fds, r, "serve"), formats[d],
                                         r.payload, r.fd)
                          ELSE Got(fds, r, "serve")
                /\ conn' = [conn EXCEPT ![d] = r.c]
                /\ UNCHANGED <<pc, ret>>
    /\ UNCHANGED <<formats, todo, names, wire, peerClosed, sent, envVars,
                   peerVars, reqs, offered, launchVars>>

\* Every step of Serve.
Serve(d) ==
    \/ Connect(d)
    \/ GetRegistry(d)
    \/ Sync1(d)
    \/ Recv(d)
    \/ Globals(d)
    \/ AfterFirstSync(d)
    \/ BindSeat(d)
    \/ BindManager(d)
    \/ CreateDataSource(d)
    \/ Offer(d)
    \/ GetDataDevice(d)
    \/ SetSelection(d)
    \/ Sync2(d)
    \/ Confirm(d)
    \/ ServeLoop(d)

(***************************************************************************)
(* The scripted peer: a test double at the other end of the socket.  It    *)
(* records every request and emits events of its choosing, each only once  *)
(* the object it is addressed to has been created by a request.            *)
(***************************************************************************)
\* The daemon under test: the first process.
TestProc == CHOOSE d \in Procs : \A e \in Procs : d <= e

Names == {7, 8}

GlobalEvent(name, iface, version) ==
    [obj |-> idRegistry, op |-> 0,
     payload |-> concat(<<encodeUint32(name), encodeString(iface),
                          encodeUint32(version)>>),
     fd |-> NoFd]

\* Well-formed advertisements, a payload too short for the name, and one
\* whose interface string is cut off.
GlobalEvents ==
    {GlobalEvent(n, WlSeat, 1) : n \in Names}
    \cup {GlobalEvent(9, DCManagerV1, 2), GlobalEvent(5, WlShm, 1)}
    \cup {[obj |-> idRegistry, op |-> 0, payload |-> <<7, 0>>, fd |-> NoFd],
          [obj |-> idRegistry, op |-> 0,
           payload |-> encodeUint32(7) \o encodeUint32(8) \o <<119, 108>>,
           fd |-> NoFd]}

DoneEvent(cb) == [obj |-> cb, op |-> 0, payload |-> encodeUint32(0), fd |-> NoFd]

\* A send event always comes with the write end of the reader's pipe.
SendEvent(mimePayload, fd) ==
    [obj |-> idDCSource, op |-> 0, payload |-> mimePayload, fd |-> fd]

CancelledEvent == [obj |-> idDCSource, op |-> 1, payload |-> <<>>, fd |-> NoFd]

DeleteIdEvent(id) ==
    [obj |-> idDisplay, op |-> 1, payload |-> encodeUint32(id), fd |-> NoFd]

\* MIME arguments of a send event: every offered type, one that is not
\* offered, and a string cut short.
SendPayloads(table) ==
    {encodeString(k) : k \in DOMAIN table \cup {XUnknown}}
    \cup {encodeUint32(12) \o <<116, 101>>}

\* Events the serve loop has no case for: another object, another opcode.
NoiseEvents ==
    {DeleteIdEvent(idCallback1),
     [obj |-> idDCSource, op |-> 2, payload |-> <<>>, fd |-> NoFd]}

HasSent(d, objectID, opcode, args) ==
    \E i \in 1..Len(sent[d]) :
        /\ sent[d][i].obj = objectID
        /\ sent[d][i].op = opcode
        /\ sent[d][i].args = args

Connected(d) == conn[d].fd = "open" /\ ~peerClosed[d]

\* The last well-formed advertisement of each required interface that the
\* peer emitted before the first done, every seat name it advertised, and
\* whether it emitted a malformed one.
Advertise(sc, ev) ==
    LET dec == decodeString(SubSeq(ev.payload, 5, Len(ev.payload)))
    IN  IF sc.done1 THEN sc
        ELSE IF Len(ev.payload) < 4 \/ dec.err THEN [sc EXCEPT !.malformed = TRUE]
        ELSE IF dec.s = WlSeat
        THEN [sc EXCEPT !.advSeat = leUint32(SubSeq(ev.payload, 1, 4)),
                        !.seatNames = @ \cup {leUint32(SubSeq(ev.payload, 1, 4))}]
        ELSE IF dec.s = DCManagerV1
        THEN [sc EXCEPT !.advManager = leUint32(SubSeq(ev.payload, 1, 4))]
        ELSE sc

PeerFrame == <<pc, ret, formats, todo, conn, names, sent, envVars, comp,
               reqs, offered, launchVars>>

\* The daemon observes the peer's writes only through Recvmsg, so the script
\* writes when the daemon is about to receive.
Listening(d) ==
    /\ Connected(d)
    /\ pc[d] \in {"globals", "confirm", "serve"}
    /\ conn[d].inBuf = <<>>

PeerGlobal ==
    /\ harness = "script"
    /\ Listening(TestProc)
    /\ ~script.done1
    /\ script.events < MaxEvents
    /\ \E ev \in GlobalEvents :
          /\ wire' = [wire EXCEPT ![TestProc] = Append(@, ev)]
          /\ script' = [Advertise(script, ev) EXCEPT !.events = @ + 1]
    /\ UNCHANGED <<PeerFrame, peerClosed, fds>>

PeerDone ==
    /\ harness = "script"
    /\ Listening(TestProc)
    /\ \E cb \in {idCallback1, idCallback2} :
          /\ HasSent(TestProc, idDisplay, 0, encodeUint32(cb))
          /\ ~(IF cb = idCallback1 THEN script.done1 ELSE script.done2)
          /\ wire' = [wire EXCEPT ![TestProc] = Append(@, DoneEvent(cb))]
          /\ script' = IF cb = idCallback1 THEN [script EXCEPT !.done1 = TRUE]
                       ELSE [script EXCEPT !.done2 = TRUE]
    /\ UNCHANGED <<PeerFrame, peerClosed, fds>>

PeerSend ==
    /\ harness = "script"
    /\ Listening(TestProc)
    /\ HasSent(TestProc, idDCDevice, 0, encodeUint32(idDCSource))
    /\ script.events < MaxEvents
    /\ \E p \in SendPayloads(formats[TestProc]) :
          /\ wire' = [wire EXCEPT ![TestProc] =
                        Append(@, SendEvent(p, Len(fds) + 1))]
          /\ fds' = Append(fds, NewFd(SendEvent(p, Len(fds) + 1)))
    /\ script' = [script EXCEPT !.events = @ + 1]
    /\ UNCHANGED <<PeerFrame, peerClosed>>

PeerCancelled ==
    /\ harness = "script"
    /\ Listening(TestProc)
    /\ HasSent(TestProc, idDCDevice, 0, encodeUint32(idDCSource))
    /\ ~script.cancelled
    /\ wire' = [wire EXCEPT ![TestProc] = Append(@, CancelledEvent)]
    /\ script' = [script EXCEPT !.cancelled = TRUE]
    /\ UNCHANGED <<PeerFrame, peerClosed, fds>>

PeerNoise ==
    /\ harness = "script"
    /\ Listening(TestProc)
    /\ script.events < MaxEvents
    /\ \E ev \in NoiseEvents :
          wire' = [wire EXCEPT ![TestProc] = Append(@, ev)]
    /\ script' = [script EXCEPT !.events = @ + 1]
    /\ UNCHANGED <<PeerFrame, peerClosed, fds>>

PeerClose ==
    /\ harness = "script"
    /\ Connected(TestProc)
    /\ peerClosed' = [peerClosed EXCEPT ![TestProc] = TRUE]
    /\ UNCHANGED <<PeerFrame, wire, fds, script>>

(***************************************************************************)
(* Serve called with a test table against the scripted peer.               *)
(***************************************************************************)
TestTables ==
    {(TextHtml :> BoldHi) @@ (TextPlain :> Hi)}

NoNames == [seatName |-> 0, dcManagerName |-> 0,
            seatFound |-> FALSE, dcManagerFound |-> FALSE]

NoScript == [events |-> 0, done1 |-> FALSE,
             done2 |-> FALSE, cancelled |-> FALSE, advSeat |-> 0, advManager |-> 0,
             malformed |-> FALSE, seatNames |-> {}]

NoCompositor == [up |-> FALSE, dataControl |-> FALSE, owner |-> 0,
                 pastes |-> 0, revoked |-> {}]

NoCall == [state |-> "idle", html |-> <<>>, plain |-> <<>>, starts |-> 0,
           startErr |-> "nil", children |-> {}, ret |-> "none"]

InitCommon ==
    /\ ret = [d \in Procs |-> "none"]
    /\ todo = [d \in Procs |-> {}]
    /\ conn = [d \in Procs |-> NoConn]
    /\ names = [d \in Procs |-> NoNames]
    /\ wire = [d \in Procs |-> <<>>]
    /\ peerClosed = [d \in Procs |-> FALSE]
    /\ sent = [d \in Procs |-> <<>>]
    /\ fds = <<>>
    /\ script = NoScript
    /\ reqs = [d \in Procs |-> <<>>]
    /\ offered = [d \in Procs |-> {}]
    /\ clipWrites = <<>>

Init ==
    /\ InitCommon
    /\ harness = "script"
    /\ pc = [d \in Procs |-> IF d = TestProc THEN "entry" ELSE "unborn"]
    /\ \E t \in TestTables :
          formats = [d \in Procs |-> IF d = TestProc THEN t ELSE <<>>]
    /\ \E r \in {"", RuntimeDir}, w \in {"", "wayland-1"} :
          env = [XDG_RUNTIME_DIR |-> r, WAYLAND_DISPLAY |-> w]
    /\ listen = <<RuntimeDir, "wayland-0">>
    /\ comp = NoCompositor
    /\ calls = [c \in Procs |-> NoCall]
    /\ stdin = [d \in Procs |-> <<>>]

Next ==
    \/ Serve(TestProc)
    \/ PeerGlobal
    \/ PeerDone
    \/ PeerSend
    \/ PeerCancelled
    \/ PeerNoise
    \/ PeerClose

Spec == Init /\ [][Next]_vars

(***************************************************************************)
(* The process launcher.                                                   *)
(***************************************************************************)
\* The payload spawnClipboardServer marshals and the child decodes: a JSON
\* object with the two strings.
jsonMarshal(html, plain) == [HTML |-> html, Plain |-> plain]

\* Mutant: the wrong environment variable decides.
UseFallbackOnRuntimeDir(e) == e.XDG_RUNTIME_DIR = ""

\* `os.Getenv("WAYLAND_DISPLAY") == ""`
UseFallback(e) == e.WAYLAND_DISPLAY = ""

\* spawnClipboardServer: exec.Command, Stdin, Setsid, cmd.Start().  The child
\* of call c is process c.
spawnClipboardServer(c, html, plain) ==
    \E ok \in BOOLEAN :
        /\ calls' = [calls EXCEPT ![c] =
                       [@ EXCEPT !.state = "started", !.html = html, !.plain = plain,
                                 !.starts = @ + 1,
                                 !.startErr = IF ok THEN "nil" ELSE "fork/exec failed",
                                 !.children = IF ok THEN @ \cup {c} ELSE @]]
        /\ pc' = [pc EXCEPT ![c] = IF ok THEN "decode" ELSE @]
        /\ stdin' = [stdin EXCEPT ![c] = IF ok THEN jsonMarshal(html, plain) ELSE @]
        /\ UNCHANGED clipWrites

\* atotto.WriteAll(plain): the system's single-format clipboard write.
WriteAll(c, html, plain) ==
    \E result \in {"nil", "clipboard unavailable"} :
        /\ clipWrites' = Append(clipWrites,
                                [call |-> c, text |-> plain, result |-> result])
        /\ calls' = [calls EXCEPT ![c] =
                       [@ EXCEPT !.state = "returned", !.html = html, !.plain = plain,
                                 !.ret = result]]
        /\ UNCHANGED <<pc, stdin>>

Contents == {<<BoldHi, Hi>>, <<Hello, Bye>>}

\* WriteMultiFormat up to the return of atotto.WriteAll or of cmd.Start.
WriteMultiFormat(c, html, plain) ==
    /\ calls[c].state = "idle"
    /\ \A b \in Procs : b < c => calls[b].state = "returned"
    /\ IF UseFallback(env)
       THEN WriteAll(c, html, plain)
       ELSE spawnClipboardServer(c, html, plain)
    /\ UNCHANGED <<ret, formats, todo, conn, names, wire, peerClosed, sent, fds,
                   envVars, peerVars, reqs, offered>>

\* Mutant: cmd.Run() in place of cmd.Start(): the parent waits for the child
\* and returns its exit status.
cmdRun(c) ==
    [ready |-> \A d \in calls[c].children : pc[d] = "done",
     err |-> IF \E d \in calls[c].children : ret[d] # "nil"
             THEN "exit status 1" ELSE calls[c].startErr]

\* Mutant: the result of cmd.Start() is dropped.
cmdStartIgnored(c) == [ready |-> TRUE, err |-> "nil"]

\* `return cmd.Start()`: what the parent waits for, and what it returns.
cmdStart(c) == [ready |-> TRUE, err |-> calls[c].startErr]

\* spawnClipboardServer returns, and WriteMultiFormat with it.
LauncherReturn(c) ==
    /\ calls[c].state = "started"
    /\ cmdStart(c).ready
    /\ calls' = [calls EXCEPT ![c] =
                   [@ EXCEPT !.state = "returned", !.ret = cmdStart(c).err]]
    /\ UNCHANGED <<pc, ret, formats, todo, conn, names, wire, peerClosed, sent,
                   fds, envVars, peerVars, reqs, offered, clipWrites, stdin>>

\* outputReport: the copied confirmation is printed when the copy returned nil.
CopyReported(c) == calls[c].state = "returned" /\ calls[c].ret = "nil"

\* Mutant: the legacy X11 atoms are left out of the table.
ServeClipboardMimeOnly(html, plain) ==
    (TextHtml :> html) @@ (TextPlainUtf8 :> plain) @@ (TextPlain :> plain)

\* ServeClipboard's table.
ServeClipboard(html, plain) ==
    (TextHtml :> html) @@ (TextPlainUtf8 :> plain) @@ (TextPlain :> plain)
    @@ (Utf8String :> plain) @@ (StringAtom :> plain)

\* The hidden __clipboard-serve command: decode stdin, call ServeClipboard.
ClipboardServeCmd(d) ==
    /\ pc[d] = "decode"
    /\ formats' = [formats EXCEPT ![d] = ServeClipboard(stdin[d].HTML, stdin[d].Plain)]
    /\ pc' = [pc EXCEPT ![d] = "entry"]
    /\ UNCHANGED <<ret, todo, conn, names, wire, peerClosed, sent, fds, envVars,
                   peerVars, reqs, offered, launchVars>>

(***************************************************************************)
(* The compositor: answers get_registry and sync, moves the selection to   *)
(* whoever sets it and tells the previous owner it is cancelled, forwards  *)
(* paste requests to the owner.                                            *)
(***************************************************************************)
Advertised(c) ==
    <<GlobalEvent(5, WlShm, 1), GlobalEvent(7, WlSeat, 7)>>
    \o (IF c.dataControl THEN <<GlobalEvent(9, DCManagerV1, 2)>> ELSE <<>>)

\* Events go only to clients that are still connected.
Emit(w, d, evs) == IF conn[d].fd = "open" THEN [w EXCEPT ![d] = @ \o evs] ELSE w

\* The compositor handles request f of client d in state st = [w, c].
Handle(st, d, f) ==
    IF f.obj = idDisplay /\ f.op = 1
    THEN [st EXCEPT !.w = Emit(@, d, Advertised(st.c))]
    ELSE IF f.obj = idDisplay /\ f.op = 0
    THEN [st EXCEPT !.w = Emit(@, d, <<DoneEvent(leUint32(f.args)),
                                       DeleteIdEvent(leUint32(f.args))>>)]
    ELSE IF f.obj = idDCDevice /\ f.op = 0
    THEN [w |-> IF st.c.owner \notin {0, d}
                THEN Emit(st.w, st.c.owner, <<CancelledEvent>>) ELSE st.w,
          c |-> [st.c EXCEPT !.owner = d,
                             !.revoked = IF st.c.owner \notin {0, d}
                                         THEN @ \cup {st.c.owner} ELSE @]]
    ELSE st

\* One dispatch: every request of client d that has arrived is handled.
CompositorDispatch(d) ==
    /\ harness = "compositor"
    /\ comp.up
    /\ reqs[d] # <<>>
    /\ LET RECURSIVE run(_, _)
           run(st, i) == IF i > Len(reqs[d]) THEN st
                         ELSE run(Handle(st, d, reqs[d][i]), i + 1)
           st == run([w |-> wire, c |-> comp], 1)
       IN  /\ wire' = st.w
           /\ comp' = st.c
    /\ reqs' = [reqs EXCEPT ![d] = <<>>]
    /\ UNCHANGED <<pc, ret, formats, todo, conn, names, peerClosed, sent, fds,
                   envVars, script, offered, launchVars>>

\* Another client pastes: the compositor asks the owner for one MIME type.
CompositorPaste ==
    /\ harness = "compositor"
    /\ comp.up
    /\ comp.owner # 0
    /\ conn[comp.owner].fd = "open"
    /\ comp.pastes < MaxPastes
    /\ \E mimeType \in offered[comp.owner] \cup {XUnknown} :
          LET ev == SendEvent(encodeString(mimeType), Len(fds) + 1)
          IN  /\ wire' = [wire EXCEPT ![comp.owner] = Append(@, ev)]
              /\ fds' = Append(fds, NewFd(ev))
    /\ comp' = [comp EXCEPT !.pastes = @ + 1]
    /\ UNCHANGED <<pc, ret, formats, todo, conn, names, peerClosed, sent,
                   envVars, script, reqs, offered, launchVars>>

\* Another application copies: the owner's source is cancelled.
ForeignSelection ==
    /\ harness = "compositor"
    /\ comp.up
    /\ comp.owner # 0
    /\ wire' = Emit(wire, comp.owner, <<CancelledEvent>>)
    /\ comp' = [comp EXCEPT !.owner = 0, !.revoked = @ \cup {comp.owner}]
    /\ UNCHANGED <<pc, ret, formats, todo, conn, names, peerClosed, sent, fds,
                   envVars, script, reqs, offered, launchVars>>

\* The compositor exits: every connection is closed from its end.
CompositorExit ==
    /\ harness = "compositor"
    /\ comp.up
    /\ comp' = [comp EXCEPT !.up = FALSE, !.owner = 0]
    /\ peerClosed' = [d \in Procs |-> TRUE]
    /\ reqs' = [d \in Procs |-> <<>>]
    /\ UNCHANGED <<pc, ret, formats, todo, conn, names, wire, sent, fds,
                   envVars, script, offered, launchVars>>

InitSys ==
    /\ InitCommon
    /\ harness = "compositor"
    /\ pc = [d \in Procs |-> "unborn"]
    /\ formats = [d \in Procs |-> <<>>]
    /\ \E r \in {"", RuntimeDir}, w \in {"", "wayland-1"} :
          env = [XDG_RUNTIME_DIR |-> r, WAYLAND_DISPLAY |-> w]
    /\ listen = <<RuntimeDir, "wayland-1">>
    /\ \E dc \in BOOLEAN :
          comp = [NoCompositor EXCEPT !.up = TRUE, !.dataControl = dc]
    /\ calls = [c \in Procs |-> NoCall]
    /\ stdin = [d \in Procs |-> <<>>]

Compositor ==
    \/ \E d \in Procs : CompositorDispatch(d)
    \/ CompositorPaste
    \/ ForeignSelection
    \/ CompositorExit

\* One invocation of the CLI, its daemon and the compositor.
NextLaunch ==
    \/ \E args \in Contents : WriteMultiFormat(TestProc, args[1], args[2])
    \/ LauncherReturn(TestProc)
    \/ ClipboardServeCmd(TestProc)
    \/ Serve(TestProc)
    \/ Compositor

SpecLaunch == InitSys /\ [][NextLaunch]_vars

\* Successive invocations, each with its own daemon, in a session whose
\* compositor stays up and where only these daemons set the selection.
NextSys ==
    \/ \E c \in Procs, args \in Contents : WriteMultiFormat(c, args[1], args[2])
    \/ \E c \in Procs : LauncherReturn(c)
    \/ \E d \in Procs : ClipboardServeCmd(d)
    \/ \E d \in Procs : Serve(d)
    \/ \E d \in Procs : CompositorDispatch(d)
    \/ CompositorPaste

SpecSys == InitSys /\ [][NextSys]_vars

\* Every process that can take a step eventually does; the compositor
\* dispatches what it has received.  Pastes, other applications' copies and
\* the compositor's exit are not promised.
\* The same session when nothing is pasted and every copy has the same
\* content: what decides whether a daemon terminates.
NextFair ==
    \/ \E c \in Procs : WriteMultiFormat(c, BoldHi, Hi)
    \/ \E c \in Procs : LauncherReturn(c)
    \/ \E d \in Procs : ClipboardServeCmd(d)
    \/ \E d \in Procs : Serve(d)
    \/ \E d \in Procs : CompositorDispatch(d)

\* Every daemon process that can take a step eventually does, and the
\* compositor dispatches what it has received.  Further copies are not
\* promised.
FairSys ==
    /\ InitSys /\ [][NextFair]_vars
    /\ \A d \in Procs : WF_vars(Serve(d) \/ ClipboardServeCmd(d))
    /\ \A d \in Procs : WF_vars(CompositorDispatch(d))

(***************************************************************************)
(* Properties.                                                             *)
(***************************************************************************)
IsSend(m) == m.obj = idDCSource /\ m.op = 0
IsCancelled(m) == m.obj = idDCSource /\ m.op = 1

\* The event's MIME argument is the encoding of a key of the table.
NamesKey(payload, table) == \E k \in DOMAIN table : payload = encodeString(k)
KeyOf(payload, table) == CHOOSE k \in DOMAIN table : payload = encodeString(k)

\* Daemon d is in the event loop and its next readMsg returns m.
ServingHead(d) == pc[d] = "serve" /\ conn[d].inBuf # <<>>

\* C3: once serving, Serve returns only when a cancelled event on the data
\* source is read or readMsg fails; nothing else ends the event loop.
C3_ServeEndsOnlyOnCancelledOrReadFailure ==
    [][\A d \in Procs :
          (pc[d] = "serve" /\ pc'[d] # "serve") =>
             /\ pc'[d] = "done"
             /\ \/ conn[d].inBuf # <<>> /\ IsCancelled(Head(conn[d].inBuf))
                \/ conn[d].inBuf = <<>> /\ wire[d] = <<>> /\ peerClosed[d]]_vars

\* The script is exhausted, a send has been answered, and the daemon serves on.
C3_Witness ==
    /\ pc[TestProc] = "serve"
    /\ script.events = MaxEvents
    /\ wire[TestProc] = <<>> /\ conn[TestProc].inBuf = <<>>
    /\ \E f \in DOMAIN fds :
          fds[f].gotWith.at = "serve" /\ IsSend(fds[f].gotWith) /\ fds[f].data # <<>>

\* C4: a send event for an offered type returned with a descriptor causes
\* exactly one write, of that key's whole payload, to that descriptor, which
\* is then closed; a closed descriptor is never written again.
C4_SendWritesPayloadOnceThenCloses ==
    [][/\ \A d \in Procs :
            (/\ ServingHead(d) /\ conn'[d] # conn[d]
             /\ IsSend(Head(conn[d].inBuf))
             /\ conn[d].pendingFds # <<>>
             /\ NamesKey(Head(conn[d].inBuf).payload, formats[d]))
            => LET fd == Head(conn[d].pendingFds)
                   k == KeyOf(Head(conn[d].inBuf).payload, formats[d])
               IN  /\ fds[fd].open /\ fds[fd].data = <<>>
                   /\ fds'[fd].data = <<formats[d][k]>>
                   /\ ~fds'[fd].open /\ fds'[fd].closes = 1
                   /\ \A g \in DOMAIN fds \ {fd} : fds'[g] = fds[g]
       /\ \A f \in DOMAIN fds :
            ~fds[f].open => ~fds'[f].open /\ fds'[f].data = fds[f].data]_vars

\* A request for text/html was answered with the html payload.
C4_Witness ==
    \E f \in DOMAIN fds :
        /\ fds[f].gotWith.at = "serve" /\ IsSend(fds[f].gotWith)
        /\ fds[f].gotWith.payload = encodeString(TextHtml)
        /\ fds[f].data = <<BoldHi>> /\ ~fds[f].open

\* C5: a send event whose MIME argument is not a key of the table leaves the
\* descriptor empty and closed, and the loop keeps serving.
C5_UnknownTypeClosesEmpty ==
    [][\A d \in Procs :
          (/\ ServingHead(d) /\ conn'[d] # conn[d]
           /\ IsSend(Head(conn[d].inBuf))
           /\ conn[d].pendingFds # <<>>
           /\ ~NamesKey(Head(conn[d].inBuf).payload, formats[d]))
          => LET fd == Head(conn[d].pendingFds)
             IN  /\ fds'[fd].data = <<>>
                 /\ ~fds'[fd].open /\ fds'[fd].closes = 1
                 /\ pc'[d] = "serve" /\ ret'[d] = "none"
                 /\ conn'[d].fd = "open"]_vars

C5_Witness ==
    /\ pc[TestProc] = "serve"
    /\ \E f \in DOMAIN fds :
          /\ fds[f].gotWith.at = "serve" /\ IsSend(fds[f].gotWith)
          /\ fds[f].gotWith.payload = encodeString(XUnknown)
          /\ fds[f].data = <<>> /\ ~fds[f].open

\* C6: reading a cancelled event in the event loop makes Serve return nil
\* with the socket closed.
C6_CancelledReturnsNilAndCloses ==
    [][\A d \in Procs :
          (/\ ServingHead(d) /\ conn'[d] # conn[d]
           /\ IsCancelled(Head(conn[d].inBuf)))
          => /\ pc'[d] = "done" /\ ret'[d] = "nil"
             /\ conn'[d].fd = "closed"]_vars

\* Cancelled after a served send, with the peer still connected.
C6_Witness ==
    /\ pc[TestProc] = "done" /\ ret[TestProc] = "nil"
    /\ conn[TestProc].fd = "closed"
    /\ script.cancelled /\ ~peerClosed[TestProc]
    /\ \E f \in DOMAIN fds :
          fds[f].gotWith.at = "serve" /\ IsSend(fds[f].gotWith) /\ fds[f].data # <<>>

\* Positions in sent[d] of the requests with this object and opcode.
Sent(d, objectID, opcode) ==
    {i \in 1..Len(sent[d]) : sent[d][i].obj = objectID /\ sent[d][i].op = opcode}

\* C8: one offer per key of the table and no other, all after
\* create_data_source and all before set_selection.
C8_OffersOncePerKeyBeforeSetSelection ==
    [](\A d \in Procs :
        LET offers == Sent(d, idDCSource, 0)
            creates == Sent(d, idDCManager, 0)
            sets == Sent(d, idDCDevice, 0)
        IN  /\ \A i \in offers : NamesKey(sent[d][i].args, formats[d])
            /\ \A i, j \in offers : i # j => sent[d][i].args # sent[d][j].args
            /\ \A i \in offers : \E c \in creates : c < i
            /\ \A j \in sets :
                  /\ \A i \in offers : i < j
                  /\ \A k \in DOMAIN formats[d] :
                        \E i \in offers : sent[d][i].args = encodeString(k))

\* The selection has been set after offering text/plain first, text/html second.
C8_Witness ==
    /\ Sent(TestProc, idDCDevice, 0) # {}
    /\ \E i, j \in Sent(TestProc, idDCSource, 0) :
          /\ i < j
          /\ sent[TestProc][i].args = encodeString(TextPlain)
          /\ sent[TestProc][j].args = encodeString(TextHtml)

\* The fields of a bind request.
BindArgs(a) ==
    LET dec == decodeString(SubSeq(a, 5, Len(a)))
    IN  [name |-> leUint32(SubSeq(a, 1, 4)),
         iface |-> dec.s,
         version |-> leUint32(SubSeq(dec.rest, 1, 4)),
         newId |-> leUint32(SubSeq(dec.rest, 5, 8)),
         len |-> Len(dec.rest)]

\* The done of callback cb has been emitted and is no longer in flight.
DoneRead(d, cb) ==
    /\ IF cb = idCallback1 THEN script.done1 ELSE script.done2
    /\ \A i \in 1..Len(wire[d]) : ~(wire[d][i].obj = cb /\ wire[d][i].op = 0)
    /\ \A i \in 1..Len(conn[d].inBuf) :
          ~(conn[d].inBuf[i].obj = cb /\ conn[d].inBuf[i].op = 0)

\* C9: the binds are issued only after the first done has been read; there
\* are at most two, exactly two once the handshake goes on, one binding the
\* advertised seat name to the seat id and one binding the advertised manager
\* name to the manager id.
C9_BindsTheAdvertisedNamesAfterDone ==
    [](LET d == TestProc
        binds == Sent(d, idRegistry, 0)
        IsSeatBind(b) == /\ b.iface = WlSeat /\ b.name = script.advSeat
                         /\ b.newId = idSeat /\ b.len = 8
        IsManagerBind(b) == /\ b.iface = DCManagerV1 /\ b.name = script.advManager
                            /\ b.newId = idDCManager /\ b.len = 8
    IN  /\ Cardinality(binds) <= 2
        /\ binds # {} => /\ DoneRead(d, idCallback1)
                         /\ script.advSeat # 0 /\ script.advManager # 0
        /\ \A i \in binds : \/ IsSeatBind(BindArgs(sent[d][i].args))
                            \/ IsManagerBind(BindArgs(sent[d][i].args))
        /\ \A i, j \in binds :
              i # j => BindArgs(sent[d][i].args).iface # BindArgs(sent[d][j].args).iface
        /\ Sent(d, idDCManager, 0) # {} => Cardinality(binds) = 2)

\* Both binds are out; the seat was advertised twice and an unrelated global
\* was seen.
C9_Witness ==
    /\ Cardinality(Sent(TestProc, idRegistry, 0)) = 2
    /\ script.advSeat = 8 /\ script.advManager = 9
    /\ script.events = MaxEvents
    /\ Len(fds) = 0

\* C10: when the first done is read with a required global missing, Serve
\* returns the error naming it, has sent nothing after the first sync, and
\* closes the connection.
C10_MissingGlobalFailsWithoutFurtherRequests ==
    LET d == TestProc
    IN  (DoneRead(d, idCallback1) /\ (script.advSeat = 0 \/ script.advManager = 0))
        => /\ Len(sent[d]) = 2
           /\ pc[d] \in {"afterFirstSync", "done"}
           /\ pc[d] = "done" =>
                /\ ret[d] = IF script.advSeat = 0 THEN "wl_seat not found"
                            ELSE "zwlr_data_control_manager_v1 not found"
                /\ conn[d].fd = "closed" /\ conn[d].closes = 1

\* The seat was advertised, the manager was not.
C10_Witness ==
    /\ pc[TestProc] = "done"
    /\ ret[TestProc] = "zwlr_data_control_manager_v1 not found"
    /\ script.advSeat # 0 /\ script.advManager = 0
\* The writes call c made through the system's single-format clipboard.
WritesOf(c) == SelectSeq(clipWrites, LAMBDA w : w.call = c)

\* C1: without WAYLAND_DISPLAY a WriteMultiFormat call makes exactly one
\* plain-text clipboard write whose content is plain (html is dropped), starts
\* no child and no serve daemon, and returns that write's result.
C1_FallbackWritesPlainOnce ==
    \A c \in Procs :
        (env.WAYLAND_DISPLAY = "") =>
            /\ calls[c].starts = 0 /\ calls[c].children = {}
            /\ \A d \in Procs : pc[d] = "unborn"
            /\ calls[c].state \in {"idle", "returned"}
            /\ calls[c].state = "idle" => WritesOf(c) = <<>>
            /\ calls[c].state = "returned" =>
                  /\ Len(WritesOf(c)) = 1
                  /\ WritesOf(c)[1].text = calls[c].plain
                  /\ calls[c].ret = WritesOf(c)[1].result

C1_Witness ==
    /\ env.WAYLAND_DISPLAY = ""
    /\ env.XDG_RUNTIME_DIR # ""
    /\ calls[TestProc].state = "returned"
    /\ calls[TestProc].html = BoldHi
    /\ calls[TestProc].ret = "clipboard unavailable"
    /\ clipWrites = <<[call |-> TestProc, text |-> Hi,
                       result |-> "clipboard unavailable"]>>

\* C2: with WAYLAND_DISPLAY set a WriteMultiFormat call makes one attempt to
\* start a child, which is its only child, and once the attempt has returned
\* nothing the daemon does or fails to do keeps the call from returning; the
\* call's result is that of the start alone, nil whenever a child was started,
\* whatever became of the daemon.
C2_ReturnsWithoutWaitingForTheDaemon ==
    \A c \in Procs :
        /\ (env.WAYLAND_DISPLAY # "" /\ calls[c].state # "idle") =>
              /\ calls[c].starts = 1
              /\ calls[c].children = IF calls[c].startErr = "nil" THEN {c} ELSE {}
              /\ WritesOf(c) = <<>>
        /\ calls[c].state = "started" => ENABLED LauncherReturn(c)
        /\ (calls[c].state = "returned" /\ calls[c].children # {}) =>
              calls[c].ret = "nil"

\* The call has returned nil and its daemon has yet to send set_selection.
C2_Witness ==
    /\ calls[TestProc].state = "returned"
    /\ calls[TestProc].ret = "nil"
    /\ calls[TestProc].children = {TestProc}
    /\ pc[TestProc] = "set_selection"

\* C7: when several daemons run one after another on the same compositor,
\* every daemon the compositor has revoked with a cancelled event eventually
\* terminates.
C7_RevokedDaemonsTerminate ==
    \A d \in Procs : (d \in comp.revoked) ~> (pc[d] = "done")

\* C11: the event loop is entered only once the done of callback 2 has been
\* read; before that no descriptor is written to and Serve does not return
\* nil.
C11_ServingOnlyAfterSecondDone ==
    \A d \in Procs :
        /\ (pc[d] = "serve" \/ ret[d] = "nil") =>
              /\ DoneRead(d, idCallback2)
              /\ Sent(d, idDCDevice, 0) # {}
              /\ \A i \in Sent(d, idDCDevice, 0) :
                    \E j \in Sent(d, idDisplay, 0) :
                        i < j /\ sent[d][j].args = encodeUint32(idCallback2)
        /\ \A f \in DOMAIN fds :
              fds[f].data # <<>> =>
                 /\ fds[f].gotWith.at = "serve"
                 /\ DoneRead(d, idCallback2)

\* A send event came before the second done and was dropped unanswered; the
\* daemon then entered the event loop.
C11_Witness ==
    /\ pc[TestProc] = "serve"
    /\ \E f \in DOMAIN fds :
          /\ fds[f].gotWith.at = "confirm" /\ IsSend(fds[f].gotWith)
          /\ NamesKey(fds[f].gotWith.payload, formats[TestProc])
          /\ fds[f].data = <<>> /\ ~fds[f].open

\* C12: readMsg returns every descriptor with the message the peer sent it
\* with, so a message sent without a descriptor is returned with none.
C12_DescriptorReturnedWithItsMessage ==
    \A f \in DOMAIN fds :
        fds[f].gotWith.at # "none" =>
            /\ fds[f].gotWith.obj = fds[f].sentWith.obj
            /\ fds[f].gotWith.op = fds[f].sentWith.op
            /\ fds[f].gotWith.payload = fds[f].sentWith.payload

(***************************************************************************)
(* readMsg byte by byte: a caller reads message after message from a       *)
(* stream whose bytes arrive in chunks of any size.  Here conn.inBuf and   *)
(* wire hold bytes, and script holds the events the peer wrote (msgs),     *)
(* raw bytes it wrote after them (tail) and what readMsg returned (got).   *)
(***************************************************************************)
\* The bytes of an event as the peer writes them: object id, then opcode in
\* the low and total size in the high half of the second word, then payload.
EventBytes(m) ==
    encodeUint32(m.obj) \o encodeUint32(m.op + 65536 * (8 + Len(m.payload)))
    \o m.payload

StreamBytes(msgs, from) ==
    LET RECURSIVE cat(_)
        cat(i) == IF i > Len(msgs) THEN <<>> ELSE EventBytes(msgs[i]) \o cat(i + 1)
    IN  cat(from)

\* Mutant: the buffer is emptied when a message is sliced off.
inBufAfterReset(inBuf, size) == <<>>

\* `c.inBuf = c.inBuf[size:]`
inBufAfter(inBuf, size) == SubSeq(inBuf, size + 1, Len(inBuf))

\* The top of readMsg's loop: slice a complete message off inBuf, if any.
readMsgBuffered(c) ==
    LET sizeOpcode == leUint32(SubSeq(c.inBuf, 5, 8))
        size == sizeOpcode \div 65536
    IN  IF Len(c.inBuf) >= 8 /\ size >= 8 /\ Len(c.inBuf) >= size
        THEN [ok |-> TRUE,
              objectID |-> leUint32(SubSeq(c.inBuf, 1, 4)),
              opcode |-> sizeOpcode % 65536,
              payload |-> SubSeq(c.inBuf, 9, size),
              fd |-> IF Len(c.pendingFds) > 0 THEN Head(c.pendingFds) ELSE NoFd,
              c |-> [c EXCEPT !.inBuf = inBufAfter(@, size),
                              !.pendingFds = IF Len(@) > 0 THEN Tail(@) ELSE @]]
        ELSE [ok |-> FALSE, objectID |-> 0, opcode |-> 0, payload |-> <<>>,
              fd |-> NoFd, c |-> c]

WireFrame == <<formats, todo, names, peerClosed, sent, fds, envVars, comp,
               reqs, offered, launchVars>>

\* readMsg returns a message to its caller, which calls readMsg again.
ReadMsgReturn(d) ==
    /\ harness = "wire"
    /\ pc[d] = "readMsg"
    /\ readMsgBuffered(conn[d]).ok
    /\ LET r == readMsgBuffered(conn[d])
       IN  /\ conn' = [conn EXCEPT ![d] = r.c]
           /\ script' = [script EXCEPT !.got =
                           Append(@, [objectID |-> r.objectID, opcode |-> r.opcode,
                                      payload |-> r.payload, fd |-> r.fd])]
    /\ UNCHANGED <<WireFrame, pc, ret, wire>>

\* Mutant: readMsg receives before it looks at its buffer.
NeedsReceiveAlways(c) == TRUE

\* readMsg falls through to Recvmsg: no complete message is buffered.
NeedsReceive(c) == ~readMsgBuffered(c).ok

\* readMsg's Recvmsg: some of the bytes written so far arrive; with nothing
\* left and the peer gone it reads zero bytes and readMsg returns the error.
ReadMsgRecv(d) ==
    /\ harness = "wire"
    /\ pc[d] = "readMsg"
    /\ NeedsReceive(conn[d])
    /\ IF wire[d] = <<>>
       THEN /\ peerClosed[d]
            /\ pc' = [pc EXCEPT ![d] = "done"]
            /\ ret' = [ret EXCEPT ![d] = "read"]
            /\ UNCHANGED <<conn, wire, script>>
       ELSE \E n \in 1..Len(wire[d]) :
              /\ conn' = [conn EXCEPT ![d].inBuf = @ \o SubSeq(wire[d], 1, n)]
              /\ wire' = [wire EXCEPT ![d] = SubSeq(@, n + 1, Len(@))]
              /\ script' = [script EXCEPT !.partialHeader =
                                              @ \/ Len(conn[d].inBuf) + n < 8,
                                            !.recvs = @ + 1]
              /\ UNCHANGED <<pc, ret>>
    /\ UNCHANGED WireFrame

\* What the peer writes: well-formed events, and after them nothing or a
\* header whose size field is 4 followed by four more bytes.
WireStreams ==
    {[msgs |-> <<GlobalEvent(7, WlSeat, 1), DoneEvent(idCallback1)>>, tail |-> <<>>],
     [msgs |-> <<SendEvent(encodeString(TextPlain), NoFd), CancelledEvent,
                 DeleteIdEvent(idCallback2)>>, tail |-> <<>>],
     [msgs |-> <<DoneEvent(idCallback2)>>,
      tail |-> encodeUint32(idDCSource) \o encodeUint32(65536 * 4)
               \o encodeUint32(0)]}

\* The connection is up and the peer has written its stream; it may have
\* closed its end after that.
InitWire ==
    /\ harness = "wire"
    /\ pc = [d \in Procs |-> IF d = TestProc THEN "readMsg" ELSE "unborn"]
    /\ ret = [d \in Procs |-> "none"]
    /\ formats = [d \in Procs |-> <<>>]
    /\ todo = [d \in Procs |-> {}]
    /\ conn = [d \in Procs |-> IF d = TestProc THEN newConn(TRUE, TRUE) ELSE NoConn]
    /\ names = [d \in Procs |-> NoNames]
    /\ \E st \in WireStreams :
          /\ wire = [d \in Procs |-> IF d = TestProc
                                    THEN StreamBytes(st.msgs, 1) \o st.tail ELSE <<>>]
          /\ script = [msgs |-> st.msgs, tail |-> st.tail, got |-> <<>>,
                       partialHeader |-> FALSE, recvs |-> 0]
    /\ \E closed \in BOOLEAN :
          peerClosed = [d \in Procs |-> d = TestProc /\ closed]
    /\ sent = [d \in Procs |-> <<>>]
    /\ fds = <<>>
    /\ env = [XDG_RUNTIME_DIR |-> RuntimeDir, WAYLAND_DISPLAY |-> ""]
    /\ listen = <<RuntimeDir, "wayland-0">>
    /\ comp = NoCompositor
    /\ reqs = [d \in Procs |-> <<>>]
    /\ offered = [d \in Procs |-> {}]
    /\ calls = [c \in Procs |-> NoCall]
    /\ clipWrites = <<>>
    /\ stdin = [d \in Procs |-> <<>>]

NextWire ==
    \/ ReadMsgReturn(TestProc)
    \/ ReadMsgRecv(TestProc)

SpecWire == InitWire /\ [][NextWire]_vars

\* C13: however the bytes of the stream are split over receives, the
\* messages readMsg has returned are the first messages written, each once
\* and in order, with object id, opcode and payload as written, and the
\* bytes buffered and still to arrive are exactly the bytes written after
\* them.
C13_SplitMessagesAreReassembled ==
    LET d == TestProc
        k == Len(script.got)
    IN  /\ k <= Len(script.msgs)
        /\ \A i \in 1..k :
              script.got[i] = [objectID |-> script.msgs[i].obj,
                               opcode |-> script.msgs[i].op,
                               payload |-> script.msgs[i].payload,
                               fd |-> NoFd]
        /\ conn[d].inBuf \o wire[d]
              = StreamBytes(script.msgs, k + 1) \o script.tail

\* Three messages were returned although a receive once ended inside a
\* header, and nothing is left over.
C13_Witness ==
    /\ Len(script.got) = 3
    /\ script.partialHeader
    /\ conn[TestProc].inBuf = <<>> /\ wire[TestProc] = <<>>

(***************************************************************************)
(* The string codec on its own: a string is encoded, then the encoding is  *)
(* decoded.  script holds the string (s), encodeString's result (enc) and  *)
(* decodeString's result (dec).                                            *)
(***************************************************************************)
\* Bytes strings are made of: NUL, a letter, a byte above 127.
Alphabet == {0, 104, 255}

Strings == UNION {[1..n -> Alphabet] : n \in 0..MaxLen}

NoDecoded == [s |-> <<>>, rest |-> <<>>, err |-> FALSE]

InitCodec ==
    /\ harness = "codec"
    /\ pc = [d \in Procs |-> IF d = TestProc THEN "encodeString" ELSE "unborn"]
    /\ ret = [d \in Procs |-> "none"]
    /\ formats = [d \in Procs |-> <<>>]
    /\ todo = [d \in Procs |-> {}]
    /\ conn = [d \in Procs |-> NoConn]
    /\ names = [d \in Procs |-> NoNames]
    /\ wire = [d \in Procs |-> <<>>]
    /\ peerClosed = [d \in Procs |-> FALSE]
    /\ \E str \in Strings : script = [s |-> str, enc |-> <<>>, dec |-> NoDecoded]
    /\ sent = [d \in Procs |-> <<>>]
    /\ fds = <<>>
    /\ env = [XDG_RUNTIME_DIR |-> RuntimeDir, WAYLAND_DISPLAY |-> ""]
    /\ listen = <<RuntimeDir, "wayland-0">>
    /\ comp = NoCompositor
    /\ reqs = [d \in Procs |-> <<>>]
    /\ offered = [d \in Procs |-> {}]
    /\ calls = [c \in Procs |-> NoCall]
    /\ clipWrites = <<>>
    /\ stdin = [d \in Procs |-> <<>>]

CodecFrame == <<ret, formats, todo, conn, names, wire, peerClosed, sent, fds,
                envVars, comp, reqs, offered, launchVars>>

EncodeString(d) ==
    /\ harness = "codec"
    /\ pc[d] = "encodeString"
    /\ script' = [script EXCEPT !.enc = encodeString(script.s)]
    /\ pc' = [pc EXCEPT ![d] = "decodeString"]
    /\ UNCHANGED CodecFrame

DecodeString(d) ==
    /\ harness = "codec"
    /\ pc[d] = "decodeString"
    /\ script' = [script EXCEPT !.dec = decodeString(script.enc)]
    /\ pc' = [pc EXCEPT ![d] = "done"]
    /\ UNCHANGED CodecFrame

NextCodec ==
    \/ EncodeString(TestProc)
    \/ DecodeString(TestProc)

SpecCodec == InitCodec /\ [][NextCodec]_vars

NulFree(str) == \A i \in 1..Len(str) : str[i] # 0

\* C14: for a string without NUL bytes, encodeString's output has a length
\* that is a multiple of 4 and a length field of len(s)+1, and decodeString
\* of it returns the string, an empty remainder and no error.
C14_DecodeInvertsEncode ==
    NulFree(script.s) =>
        /\ pc[TestProc] \in {"decodeString", "done"} =>
              /\ Len(script.enc) % 4 = 0
              /\ leUint32(SubSeq(script.enc, 1, 4)) = Len(script.s) + 1
        /\ pc[TestProc] = "done" =>
              script.dec = [s |-> script.s, rest |-> <<>>, err |-> FALSE]

\* A string whose encoding needs padding has gone through both functions.
C14_Witness ==
    /\ pc[TestProc] = "done"
    /\ NulFree(script.s) /\ Len(script.s) = MaxLen
    /\ 255 \in {script.s[i] : i \in 1..Len(script.s)}
    /\ Len(script.enc) > 4 + Len(script.s) + 1
    /\ script.dec.s = script.s

\* C15: once serving, a failed read, the peer's orderly close included, makes
\* Serve return nil and never an error.
C15_ReadFailureWhileServingReturnsNil ==
    [][\A d \in Procs :
          pc[d] = "serve" =>
             /\ ret'[d] \in {"none", "nil"}
             /\ (conn[d].inBuf = <<>> /\ wire[d] = <<>> /\ peerClosed[d]
                 /\ pc'[d] # pc[d])
                => pc'[d] = "done" /\ ret'[d] = "nil" /\ conn'[d].fd = "closed"]_vars

\* The peer closed the connection after a send had been served; no cancelled
\* event was ever sent.
C15_Witness ==
    /\ pc[TestProc] = "done" /\ ret[TestProc] = "nil"
    /\ peerClosed[TestProc] /\ ~script.cancelled
    /\ \E f \in DOMAIN fds :
          fds[f].gotWith.at = "serve" /\ IsSend(fds[f].gotWith) /\ fds[f].data # <<>>

\* An event the event loop has no case for: another object's, or another
\* opcode on the data source.
OtherEvent(m) == ~IsSend(m) /\ ~IsCancelled(m)

\* C16 as stated: once serving, an event other than send and cancelled ends
\* the event loop and Serve returns nil.
C16_OtherEventEndsServe ==
    [][\A d \in Procs :
          (ServingHead(d) /\ conn'[d] # conn[d] /\ OtherEvent(Head(conn[d].inBuf)))
          => pc'[d] = "done" /\ ret'[d] = "nil"]_vars

\* C16 amended: once serving, an event other than send and cancelled is
\* skipped: nothing is written, Serve does not return, the connection stays
\* open and the loop goes on to the next message.
C16_OtherEventIsSkipped ==
    [][\A d \in Procs :
          (ServingHead(d) /\ conn'[d] # conn[d] /\ OtherEvent(Head(conn[d].inBuf)))
          => /\ pc'[d] = "serve" /\ ret'[d] = "none"
             /\ conn'[d].fd = "open"
             /\ conn'[d].inBuf = Tail(conn[d].inBuf)
             /\ \A f \in DOMAIN fds : fds'[f].data = fds[f].data]_vars

\* An event of the display was read in the event loop, which goes on.
C16_Witness ==
    /\ pc[TestProc] = "serve"
    /\ conn[TestProc].inBuf = <<>> /\ wire[TestProc] = <<>>
    /\ \E f \in DOMAIN fds :
          fds[f].gotWith.at = "serve" /\ fds[f].gotWith.obj = idDisplay

\* A global event whose payload is too short for the name or whose
\* interface string does not decode; a send event whose MIME string does not.
MalformedGlobal(m) ==
    /\ m.obj = idRegistry /\ m.op = 0
    /\ \/ Len(m.payload) < 4
       \/ decodeString(SubSeq(m.payload, 5, Len(m.payload))).err

UndecodableSend(m) == IsSend(m) /\ decodeString(m.payload).err

\* Daemon d reads a malformed message in this step.
ReadsMalformed(d) ==
    /\ conn[d].inBuf # <<>> /\ conn'[d] # conn[d]
    /\ \/ pc[d] = "globals" /\ MalformedGlobal(Head(conn[d].inBuf))
       \/ pc[d] = "serve" /\ UndecodableSend(Head(conn[d].inBuf))

\* C17 as stated: reading a malformed global or a send event with an
\* undecodable MIME string ends Serve with an error.
C17_MalformedMessageIsFatal ==
    [][\A d \in Procs :
          ReadsMalformed(d) => pc'[d] = "done" /\ ret'[d] \notin {"none", "nil"}]_vars

\* C17 amended: such a message is dropped and the session goes on: the loop
\* that read it keeps running and goes on to the next message, no name is
\* captured, nothing is written, and a descriptor returned with it is closed.
C17_MalformedMessageIsDropped ==
    [][\A d \in Procs :
          ReadsMalformed(d) =>
             /\ pc'[d] = pc[d] /\ ret'[d] = "none"
             /\ conn'[d].fd = "open"
             /\ conn'[d].inBuf = Tail(conn[d].inBuf)
             /\ names'[d] = names[d]
             /\ \A f \in DOMAIN fds : fds'[f].data = fds[f].data
             /\ conn[d].pendingFds # <<>> =>
                   /\ ~fds'[Head(conn[d].pendingFds)].open
                   /\ fds'[Head(conn[d].pendingFds)].closes = 1]_vars

\* After a malformed global the handshake was completed, and after a send
\* event with a cut-off MIME string the daemon waits for the next event.
C17_Witness ==
    /\ script.malformed
    /\ pc[TestProc] = "serve"
    /\ conn[TestProc].inBuf = <<>> /\ wire[TestProc] = <<>>
    /\ \E f \in DOMAIN fds :
          /\ fds[f].gotWith.at = "serve" /\ UndecodableSend(fds[f].gotWith)
          /\ fds[f].data = <<>> /\ ~fds[f].open

\* C18 as stated: with WAYLAND_DISPLAY set WriteMultiFormat returns nil
\* whatever the outcome of starting the child.
C18_SpawnAlwaysReportsSuccess ==
    \A c \in Procs :
        (env.WAYLAND_DISPLAY # "" /\ calls[c].state = "returned") =>
            calls[c].ret = "nil" /\ CopyReported(c)

\* C18 amended: with WAYLAND_DISPLAY set WriteMultiFormat returns the result
\* of starting the child: nil, and the confirmation is printed, exactly when
\* a child was started; the start's error, and no confirmation, when none was.
C18_SpawnReportsTheStartResult ==
    \A c \in Procs :
        (env.WAYLAND_DISPLAY # "" /\ calls[c].state = "returned") =>
            /\ calls[c].ret = calls[c].startErr
            /\ CopyReported(c) <=> calls[c].children # {}
            /\ calls[c].children = {} => pc[c] = "unborn" /\ calls[c].ret # "nil"

\* Starting the child failed: the call returned the error and no daemon runs.
C18_Witness ==
    /\ env.WAYLAND_DISPLAY # ""
    /\ calls[TestProc].state = "returned"
    /\ calls[TestProc].ret = "fork/exec failed"
    /\ ~CopyReported(TestProc)
    /\ pc[TestProc] = "unborn"

\* The descriptor has been taken out of a control message by a receive.
Extracted(d, f) == \A i \in 1..Len(wire[d]) : wire[d][i].fd # f

\* C19: every descriptor extracted from a control message is closed exactly
\* once by the time Serve has returned, and never more than once.
C19_EveryDescriptorClosedOnce ==
    \A f \in DOMAIN fds :
        /\ fds[f].closes <= 1
        /\ (pc[TestProc] = "done" /\ Extracted(TestProc, f)) => fds[f].closes = 1

\* The readMsg of process d returns a message and its loop goes round again.
ReadMsgCalledAgain(d) ==
    /\ pc[d] \in {"globals", "confirm", "serve"}
    /\ pc'[d] = pc[d]
    /\ Len(conn'[d].inBuf) < Len(conn[d].inBuf)

\* C20: a received descriptor is never retained past the loop iteration whose
\* receive produced it: whenever readMsg is called again, pendingFds is empty
\* and no descriptor readMsg has returned before is still open.
C20_NoDescriptorRetainedAcrossIterations ==
    [][\A d \in Procs :
         ReadMsgCalledAgain(d) =>
             /\ conn'[d].pendingFds = <<>>
             /\ \A f \in DOMAIN fds' :
                    fds'[f].gotWith.at # "none" => ~fds'[f].open]_vars

\* Serve of process d has run its first statements.
Entered(d) == pc[d] \notin {"unborn", "decode", "entry"}

\* The address the claim gives for the environment.
DisplayAddress ==
    <<env.XDG_RUNTIME_DIR,
      IF env.WAYLAND_DISPLAY = "" THEN "wayland-0" ELSE env.WAYLAND_DISPLAY>>

\* C21: with XDG_RUNTIME_DIR unset Serve returns an error without creating a
\* socket, connecting or sending a request; otherwise the socket address is
\* <runtime-dir>/wayland-0 when WAYLAND_DISPLAY is unset and
\* <runtime-dir>/<WAYLAND_DISPLAY> when it is set: the connect succeeds exactly
\* when the peer listens there.
C21_RuntimeDirRequiredAndAddress ==
    [](\A d \in Procs :
        /\ (Entered(d) /\ env.XDG_RUNTIME_DIR = "") =>
               /\ pc[d] = "done"
               /\ ret[d] \notin {"none", "nil"}
               /\ conn[d] = NoConn
               /\ sent[d] = <<>> /\ reqs[d] = <<>>
        /\ conn[d].live => listen = DisplayAddress
        /\ (conn[d].fd = "closed" /\ ~conn[d].live /\ PeerUp) =>
               listen # DisplayAddress)

C21_Witness ==
    /\ env.XDG_RUNTIME_DIR = ""
    /\ pc[TestProc] = "done"
    /\ ret[TestProc] = "XDG_RUNTIME_DIR not set"
    /\ conn[TestProc].fd = "none"

\* The i-th request of a session offering the keys of `table` is what the
\* i-th step of the bootstrap writes.
IsRequest(f, objectID, opcode) == f.obj = objectID /\ f.op = opcode

SessionStep(q, i, table) ==
    LET k == Cardinality(DOMAIN table)
        f == q[i]
        tail == SubSeq(f.args, Len(f.args) - 3, Len(f.args))
    IN  IF i = 1 THEN IsRequest(f, idDisplay, 1) /\ f.args = encodeUint32(idRegistry)
        ELSE IF i = 2 THEN IsRequest(f, idDisplay, 0) /\ f.args = encodeUint32(idCallback1)
        ELSE IF i = 3 THEN IsRequest(f, idRegistry, 0) /\ tail = encodeUint32(idSeat)
        ELSE IF i = 4 THEN IsRequest(f, idRegistry, 0) /\ tail = encodeUint32(idDCManager)
        ELSE IF i = 5 THEN IsRequest(f, idDCManager, 0) /\ f.args = encodeUint32(idDCSource)
        ELSE IF i <= 5 + k
        THEN /\ IsRequest(f, idDCSource, 0)
             /\ NamesKey(f.args, table)
             /\ \A j \in 6..(i - 1) : q[j].args # f.args
        ELSE IF i = 6 + k
        THEN IsRequest(f, idDCManager, 1)
             /\ f.args = encodeUint32(idDCDevice) \o encodeUint32(idSeat)
        ELSE IF i = 7 + k
        THEN IsRequest(f, idDCDevice, 0) /\ f.args = encodeUint32(idDCSource)
        ELSE IF i = 8 + k
        THEN IsRequest(f, idDisplay, 0) /\ f.args = encodeUint32(idCallback2)
        ELSE FALSE

\* C22: the requests Serve has written are, in every reachable state, a
\* prefix of get_registry, sync(callback 1), bind(wl_seat), bind(manager),
\* create_data_source, one offer per key, get_data_device, set_selection,
\* sync(callback 2): nothing is skipped, repeated or reordered.  What has
\* been sent only ever grows at its end, and its last request is always the
\* step of the session that its position calls for.
C22_RequestsFollowTheSessionOrder ==
    /\ [](sent[TestProc] # <<>> =>
            SessionStep(sent[TestProc], Len(sent[TestProc]), formats[TestProc]))
    /\ [][sent'[TestProc] # sent[TestProc] =>
             /\ Len(sent'[TestProc]) = Len(sent[TestProc]) + 1
             /\ SubSeq(sent'[TestProc], 1, Len(sent[TestProc])) = sent[TestProc]]_vars

C22_Witness ==
    /\ Len(sent[TestProc]) = 8 + Cardinality(DOMAIN formats[TestProc])
    /\ pc[TestProc] = "serve"

\* C23: after a successful connect the socket stays open until Serve
\* returns, and every return (write failure, read failure, missing global,
\* cancelled, disconnection) closes it exactly once; a failed connect closes
\* the socket it created and leaves no connection.
C23_SocketClosedOnceOnEveryReturn ==
    [](\A d \in Procs :
        /\ conn[d].closes <= 1
        /\ (conn[d].live /\ pc[d] = "done") =>
               conn[d].fd = "closed" /\ conn[d].closes = 1
        /\ (conn[d].live /\ pc[d] # "done") =>
               conn[d].fd = "open" /\ conn[d].closes = 0
        /\ (~conn[d].live /\ conn[d].fd # "none") =>
               /\ conn[d].fd = "closed" /\ conn[d].closes = 1
               /\ pc[d] = "done" /\ ret[d] = "connect")

C23_Witness ==
    /\ pc[TestProc] = "done"
    /\ ret[TestProc] = "zwlr_data_control_manager_v1 not found"
    /\ conn[TestProc].live
    /\ conn[TestProc].closes = 1

\* C24: a connect failure, a request write failure or a read failure
\* (orderly close included) before the second sync's done has been read makes
\* Serve return a non-nil error; Serve returns nil only from the event loop.
C24_FailuresBeforeConfirmationAreErrors ==
    [][\A d \in Procs :
         (pc[d] # "done" /\ pc'[d] = "done") =>
             /\ ret'[d] # "none"
             /\ (ret'[d] = "nil") <=> (pc[d] = "serve")
             /\ (pc[d] = "entry" /\ env.XDG_RUNTIME_DIR # "") => ret'[d] = "connect"
             /\ (pc[d] \in {"globals", "confirm"}) => ret'[d] = "read"
             /\ (pc[d] \notin {"entry", "globals", "afterFirstSync", "confirm",
                               "serve"}) => ret'[d] = "write"]_vars

C24_Witness ==
    /\ pc[TestProc] = "done"
    /\ ret[TestProc] = "read"
    /\ Len(sent[TestProc]) = 8 + Cardinality(DOMAIN formats[TestProc])
    /\ ~DoneRead(TestProc, idCallback2)

\* The daemon has built its table.
TableBuilt(d) == pc[d] \notin {"unborn", "decode"}

\* Descriptor f came back with a send event for key k in the event loop and
\* has been dealt with.
Answered(f, k) ==
    /\ fds[f].gotWith.at = "serve"
    /\ IsSend(fds[f].gotWith)
    /\ fds[f].gotWith.payload = encodeString(k)
    /\ fds[f].closes = 1

\* C25: the daemon's table maps text/html to the html string of the payload
\* decoded from stdin and text/plain;charset=utf-8, text/plain, UTF8_STRING
\* and STRING to its plain string; the table never changes during the
\* session, every offered type is a key of it, and every send for a type is
\* answered with the same bytes, those of the table.
C25_OfferTableIsFixedAndServable ==
    /\ [](\A d \in Procs :
            TableBuilt(d) =>
                /\ DOMAIN formats[d] =
                       {TextHtml, TextPlainUtf8, TextPlain, Utf8String, StringAtom}
                /\ formats[d][TextHtml] = stdin[d].HTML
                /\ \A k \in {TextPlainUtf8, TextPlain, Utf8String, StringAtom} :
                       formats[d][k] = stdin[d].Plain
                /\ offered[d] \subseteq DOMAIN formats[d])
    /\ [](\A f \in DOMAIN fds : \A k \in offered[TestProc] :
            Answered(f, k) => fds[f].data = <<formats[TestProc][k]>>)
    /\ [][\A d \in Procs : TableBuilt(d) => formats'[d] = formats[d]]_vars

C25_Witness ==
    \E f, g \in DOMAIN fds : \E k \in offered[TestProc] :
        /\ f # g
        /\ Answered(f, k) /\ Answered(g, k)
        /\ fds[f].data = <<stdin[TestProc].Plain>>
        /\ fds[g].data = fds[f].data

\* The next message the peer wrote lies complete in the buffer.
CompleteBuffered(d) ==
    /\ Len(script.got) < Len(script.msgs)
    /\ Len(conn[d].inBuf) >= Len(EventBytes(script.msgs[Len(script.got) + 1]))

\* C26: readMsg returns the messages in arrival order, one per call; while a
\* complete message is buffered the next step returns it without receiving,
\* and bytes are taken off the socket only when no complete message is
\* buffered.
C26_BufferedMessagesBeforeReceive ==
    [][LET d == TestProc
           k == Len(script.got)
       IN  /\ wire'[d] # wire[d] => ~CompleteBuffered(d)
           /\ CompleteBuffered(d) =>
                  /\ wire'[d] = wire[d]
                  /\ Len(script'.got) = k + 1
                  /\ script'.got[k + 1].objectID = script.msgs[k + 1].obj
                  /\ script'.got[k + 1].opcode = script.msgs[k + 1].op
                  /\ script'.got[k + 1].payload = script.msgs[k + 1].payload
                  /\ conn'[d].inBuf
                         = SubSeq(conn[d].inBuf,
                                  Len(EventBytes(script.msgs[k + 1])) + 1,
                                  Len(conn[d].inBuf))]_vars

\* One receive delivered three complete messages and all were returned.
C26_Witness ==
    /\ harness = "wire"
    /\ script.recvs = 1
    /\ Len(script.got) = 3

\* Message m is a well-formed advertisement of interface iface under name n.
Advertises(m, n, iface) ==
    /\ m.obj = idRegistry /\ m.op = 0
    /\ \E version \in 1..2 :
          m.payload = encodeUint32(n) \o encodeString(iface) \o encodeUint32(version)

AdvertisedNames == Names \cup {5, 9}

\* The globals loop of process d reads the message at the head of its buffer.
ReadsGlobalsHead(d) ==
    /\ pc[d] = "globals"
    /\ conn[d].inBuf # <<>>
    /\ conn'[d].inBuf = Tail(conn[d].inBuf)

\* C27: during bootstrap every advertisement of a required interface
\* replaces the captured name, so the bind references the last one read
\* before done; globals of other interfaces and events for other objects
\* leave the captured names and the found flags as they are and never make
\* Serve return.
C27_LastAdvertisementWinsOthersIgnored ==
    /\ [][\A d \in Procs :
            ReadsGlobalsHead(d) =>
              LET m == Head(conn[d].inBuf)
              IN  /\ \A n \in AdvertisedNames :
                        /\ Advertises(m, n, WlSeat) =>
                              names'[d] = [names[d] EXCEPT !.seatName = n,
                                                           !.seatFound = TRUE]
                        /\ Advertises(m, n, DCManagerV1) =>
                              names'[d] = [names[d] EXCEPT !.dcManagerName = n,
                                                           !.dcManagerFound = TRUE]
                  /\ (\A n \in AdvertisedNames :
                         ~Advertises(m, n, WlSeat) /\ ~Advertises(m, n, DCManagerV1))
                     => /\ names'[d] = names[d]
                        /\ pc'[d] \in {"globals", "afterFirstSync"}
                        /\ ret'[d] = "none"]_vars
    /\ [](\A i \in Sent(TestProc, idRegistry, 0) :
            LET b == BindArgs(sent[TestProc][i].args)
            IN  b.name = IF b.iface = WlSeat THEN script.advSeat
                         ELSE script.advManager)

\* The seat was advertised under both names among the four globals the peer
\* sent, and the bind for the seat references the last of them.
C27_Witness ==
    /\ script.seatNames = Names
    /\ script.events = MaxEvents
    /\ script.advManager # 0
    /\ \E i \in Sent(TestProc, idRegistry, 0) :
          LET b == BindArgs(sent[TestProc][i].args)
          IN  b.iface = WlSeat /\ b.name = script.advSeat

\* Every descriptor the event loop got with a send has been dealt with.
SendsAnswered ==
    \A f \in DOMAIN fds :
        (fds[f].gotWith.at = "serve" /\ IsSend(fds[f].gotWith)) =>
            /\ fds[f].closes = 1
            /\ NamesKey(fds[f].gotWith.payload, formats[TestProc]) =>
                   fds[f].data =
                       <<formats[TestProc][KeyOf(fds[f].gotWith.payload,
                                                 formats[TestProc])]>>

\* C28: the event loop takes the buffered events in order, and cancelled
\* ends all processing: Serve returns at the first cancelled with every
\* earlier send answered, and nothing buffered behind it is read, answered
\* or written to afterwards.
C28_CancelledShortCircuits ==
    /\ [][LET d == TestProc
          IN  (pc[d] = "serve" /\ conn[d].inBuf # <<>> /\ conn'[d] # conn[d]) =>
                  LET m == Head(conn[d].inBuf)
                  IN  /\ conn'[d].inBuf = Tail(conn[d].inBuf)
                      /\ IsCancelled(m) <=> pc'[d] = "done"
                      /\ IsCancelled(m) =>
                             /\ ret'[d] = "nil"
                             /\ SendsAnswered
                             /\ \A f \in DOMAIN fds :
                                    /\ fds'[f].data = fds[f].data
                                    /\ fds'[f].closes = fds[f].closes]_vars
    /\ [][\A d \in Procs :
            pc[d] = "done" =>
                /\ conn'[d] = conn[d]
                /\ pc'[d] = "done"
                /\ sent'[d] = sent[d]
                /\ fds' = fds]_vars

\* A send was answered, then cancelled was read with another send buffered
\* behind it: Serve has returned and that send is still in the buffer.
C28_Witness ==
    /\ pc[TestProc] = "done" /\ ret[TestProc] = "nil"
    /\ \E f \in DOMAIN fds :
          /\ fds[f].gotWith.at = "serve" /\ IsSend(fds[f].gotWith)
          /\ fds[f].data # <<>>
    /\ \E f \in DOMAIN fds : IsCancelled(fds[f].gotWith)
    /\ conn[TestProc].inBuf # <<>>
    /\ IsSend(Head(conn[TestProc].inBuf))

\* C29: in the event loop an event for an object other than the data source
\* is skipped: nothing is written, the descriptor returned with it, if any,
\* is closed, the table, the captured names, the requests sent and the
\* position of Serve are unchanged, and the loop goes on with the next
\* buffered message.
C29_ForeignObjectEventIsSkipped ==
    [][LET d == TestProc
           c == conn[d]
       IN  (pc[d] = "serve" /\ c.inBuf # <<>> /\ conn'[d] # c
            /\ Head(c.inBuf).obj # idDCSource) =>
               /\ pc'[d] = "serve" /\ ret'[d] = ret[d]
               /\ formats'[d] = formats[d]
               /\ names'[d] = names[d]
               /\ sent'[d] = sent[d]
               /\ conn'[d].fd = "open"
               /\ conn'[d].inBuf = Tail(c.inBuf)
               /\ \A f \in DOMAIN fds :
                      /\ fds'[f].data = fds[f].data
                      /\ IF c.pendingFds # <<>> /\ f = Head(c.pendingFds)
                         THEN /\ ~fds'[f].open
                              /\ fds'[f].closes = fds[f].closes + 1
                              /\ conn'[d].pendingFds = Tail(c.pendingFds)
                         ELSE /\ fds'[f].open = fds[f].open
                              /\ fds'[f].closes = fds[f].closes]_vars

\* An event of the display came back with a descriptor in the event loop:
\* the descriptor is closed with nothing written and the loop goes on.
C29_Witness ==
    /\ pc[TestProc] = "serve"
    /\ \E f \in DOMAIN fds :
          /\ fds[f].gotWith.at = "serve"
          /\ fds[f].gotWith.obj # idDCSource
          /\ fds[f].closes = 1 /\ ~fds[f].open
          /\ fds[f].data = <<>>

ObjectIds == {idRegistry, idCallback1, idSeat, idDCManager, idDCSource,
              idDCDevice, idCallback2}

\* The object id request f introduces, 0 when it introduces none.
NewId(f) ==
    IF f.obj = idDisplay THEN leUint32(f.args)
    ELSE IF f.obj = idRegistry /\ f.op = 0
    THEN leUint32(SubSeq(f.args, Len(f.args) - 3, Len(f.args)))
    ELSE IF f.obj = idDCManager THEN leUint32(SubSeq(f.args, 1, 4))
    ELSE 0

\* The existing objects request f names: the one it is addressed to and the
\* ones among its arguments.
Referenced(f) ==
    {f.obj}
    \cup (IF f.obj = idDCManager /\ f.op = 1 THEN {leUint32(SubSeq(f.args, 5, 8))}
          ELSE IF f.obj = idDCDevice /\ f.op = 0 THEN {leUint32(f.args)}
          ELSE {})

\* C30: the seven protocol object ids and the display's are pairwise
\* distinct, each is introduced as a new id by at most one request of the
\* session, each new id is one of the seven, and every request is addressed
\* to and references only the display or objects that an earlier request
\* created.  Requests are only ever added at the end of what has been sent,
\* so it is stated for each request at the step that sends it.
C30_ObjectIdsCreatedOnceBeforeUse ==
    /\ [](Cardinality(ObjectIds \cup {idDisplay}) = 8)
    /\ [][sent'[TestProc] # sent[TestProc] =>
             LET q == sent[TestProc]
                 f == sent'[TestProc][Len(q) + 1]
                 created == {NewId(q[j]) : j \in 1..Len(q)}
             IN  /\ sent'[TestProc] = Append(q, f)
                 /\ NewId(f) \in (ObjectIds \cup {0}) \ (created \ {0})
                 /\ Referenced(f) \subseteq created \cup {idDisplay}]_vars

\* The whole bootstrap has been sent: every one of the seven ids has been
\* introduced, and the device request has referenced the seat.
C30_Witness ==
    /\ ObjectIds = {NewId(sent[TestProc][i]) : i \in 1..Len(sent[TestProc])} \ {0}
    /\ \E i \in 1..Len(sent[TestProc]) :
          idSeat \in Referenced(sent[TestProc][i]) \ {sent[TestProc][i].obj}

\* No cancelled event for daemon d is on its way or in its buffer.
NoCancelledPending(d) ==
    /\ \A i \in 1..Len(wire[d]) : ~IsCancelled(wire[d][i])
    /\ \A i \in 1..Len(conn[d].inBuf) : ~IsCancelled(conn[d].inBuf[i])

\* The compositor has revoked daemon d, and d has taken the cancelled event
\* out of its buffer without returning: it read it while waiting for the
\* second done.
CancelledReadBeforeConfirmation(d) ==
    /\ d \in comp.revoked
    /\ pc[d] \in {"confirm", "serve"}
    /\ NoCancelledPending(d)

\* C31: a cancelled event the daemon reads after set_selection and before
\* the second sync's done still leads Serve to terminate.
C31_EarlyCancelledStillTerminates ==
    \A d \in Procs : CancelledReadBeforeConfirmation(d) ~> (pc[d] = "done")

\* C32: every send event for an offered type that the peer delivers with a
\* descriptor after set_selection, also while the daemon still waits for the
\* second done, is answered with the type's payload: no such descriptor is
\* closed with nothing written.
C32_EveryPasteOfAnOfferedTypeIsAnswered ==
    \A f \in DOMAIN fds :
        (/\ IsSend(fds[f].sentWith)
         /\ NamesKey(fds[f].sentWith.payload, formats[TestProc])
         /\ fds[f].closes >= 1) =>
            fds[f].data =
                <<formats[TestProc][KeyOf(fds[f].sentWith.payload, formats[TestProc])]>>

(***************************************************************************)
(* The stdin handoff at byte level.  cmd.Stdin is a bytes.Reader, not a    *)
(* file, so cmd.Start creates a pipe, gives its read end to the child and  *)
(* starts a goroutine in the parent that copies the payload into the write *)
(* end and closes it; only cmd.Wait would wait for that goroutine.  Here   *)
(*   wire[d]       the bytes in the pipe                                   *)
(*   peerClosed[d] every write end of the pipe is closed                   *)
(*   stdin[d]      the bytes the child's decoder has read                  *)
(*   script        the parent: payload, bytes copied, goroutine, process   *)
(***************************************************************************)
\* Escaping of one byte of a string by json.Marshal: quote and backslash get
\* a backslash; <, > and & become their six-byte \u00XX escapes.
jsonEscapeByte(b) ==
    IF b = 34 THEN <<92, 34>>
    ELSE IF b = 92 THEN <<92, 92>>
    ELSE IF b = 60 THEN <<92, 117, 48, 48, 51, 99>>
    ELSE IF b = 62 THEN <<92, 117, 48, 48, 51, 101>>
    ELSE IF b = 38 THEN <<92, 117, 48, 48, 50, 54>>
    ELSE <<b>>

jsonString(str) ==
    LET RECURSIVE esc(_)
        esc(i) == IF i > Len(str) THEN <<>> ELSE jsonEscapeByte(str[i]) \o esc(i + 1)
    IN  <<34>> \o esc(1) \o <<34>>

\* json.Marshal(struct{ HTML, Plain string }{html, plain}), as bytes.
jsonMarshalBytes(html, plain) ==
    <<123, 34, 72, 84, 77, 76, 34, 58>> \o jsonString(html)
    \o <<44, 34, 80, 108, 97, 105, 110, 34, 58>> \o jsonString(plain) \o <<125>>

\* json.NewDecoder(os.Stdin).Decode(&payload) on the bytes read so far:
\* a complete object decodes to its two strings; a proper prefix of one needs
\* more input.
jsonDecode(bytes) ==
    IF \E c \in Contents : jsonMarshalBytes(c[1], c[2]) = bytes
    THEN LET c == CHOOSE c \in Contents : jsonMarshalBytes(c[1], c[2]) = bytes
         IN  [complete |-> TRUE, HTML |-> c[1], Plain |-> c[2]]
    ELSE [complete |-> FALSE, HTML |-> <<>>, Plain |-> <<>>]

HandoffFrame == <<todo, conn, names, sent, fds, envVars, comp, reqs, offered,
                  clipWrites>>

\* spawnClipboardServer up to the return of cmd.Start: the payload is
\* marshalled, the pipe exists, the child runs and the copying goroutine has
\* been started.
StartChild(c) ==
    /\ harness = "handoff"
    /\ calls[c].state = "idle"
    /\ \E args \in Contents :
          /\ calls' = [calls EXCEPT ![c] =
                         [@ EXCEPT !.state = "started", !.html = args[1],
                                   !.plain = args[2], !.starts = @ + 1,
                                   !.children = {c}]]
          /\ script' = [script EXCEPT
                          !.payload = jsonMarshalBytes(args[1], args[2]),
                          !.copy = "running"]
    /\ pc' = [pc EXCEPT ![c] = "decode"]
    /\ UNCHANGED <<HandoffFrame, ret, formats, wire, peerClosed, stdin>>

\* The goroutine writes some more of the payload into the pipe.
StdinCopy(c) ==
    /\ harness = "handoff"
    /\ script.copy = "running"
    /\ script.written < Len(script.payload)
    /\ \E n \in 1..(Len(script.payload) - script.written) :
          /\ wire' = [wire EXCEPT ![c] =
                        @ \o SubSeq(script.payload, script.written + 1,
                                    script.written + n)]
          /\ script' = [script EXCEPT !.written = @ + n]
    /\ UNCHANGED <<HandoffFrame, pc, ret, formats, peerClosed, stdin, calls>>

\* The goroutine has written everything and closes the write end.
StdinCopyDone(c) ==
    /\ harness = "handoff"
    /\ script.copy = "running"
    /\ script.written = Len(script.payload)
    /\ script' = [script EXCEPT !.copy = "closed"]
    /\ peerClosed' = [peerClosed EXCEPT ![c] = TRUE]
    /\ UNCHANGED <<HandoffFrame, pc, ret, formats, wire, stdin, calls>>

\* cmd.Start returns, and with it spawnClipboardServer and WriteMultiFormat.
StartReturns(c) ==
    /\ harness = "handoff"
    /\ calls[c].state = "started"
    /\ calls' = [calls EXCEPT ![c] = [@ EXCEPT !.state = "returned", !.ret = "nil"]]
    /\ UNCHANGED <<HandoffFrame, pc, ret, formats, wire, peerClosed, stdin, script>>

\* The CLI has done its work and its process exits: its goroutines end where
\* they are and the kernel closes the write end.
ParentExit(c) ==
    /\ harness = "handoff"
    /\ calls[c].state = "returned"
    /\ script.parent = "running"
    /\ script' = [script EXCEPT !.parent = "exited",
                                !.copy = IF @ = "running" THEN "killed" ELSE @]
    /\ peerClosed' = [peerClosed EXCEPT ![c] = TRUE]
    /\ UNCHANGED <<HandoffFrame, pc, ret, formats, wire, stdin, calls>>

\* The child's decoder reads what is in the pipe.
ChildRead(d) ==
    /\ harness = "handoff"
    /\ pc[d] = "decode"
    /\ wire[d] # <<>>
    /\ ~jsonDecode(stdin[d]).complete
    /\ stdin' = [stdin EXCEPT ![d] = @ \o wire[d]]
    /\ wire' = [wire EXCEPT ![d] = <<>>]
    /\ UNCHANGED <<HandoffFrame, pc, ret, formats, peerClosed, calls, script>>

\* The hidden command's RunE: Decode returns, with the object once it is
\* complete, with an error when the input ends before that.
ChildDecode(d) ==
    /\ harness = "handoff"
    /\ pc[d] = "decode"
    /\ LET dec == jsonDecode(stdin[d])
       IN  IF dec.complete
           THEN /\ formats' = [formats EXCEPT ![d] = ServeClipboard(dec.HTML, dec.Plain)]
                /\ pc' = [pc EXCEPT ![d] = "entry"]
                /\ ret' = ret
           ELSE /\ wire[d] = <<>> /\ peerClosed[d]
                /\ pc' = [pc EXCEPT ![d] = "done"]
                /\ ret' = [ret EXCEPT ![d] =
                             IF stdin[d] = <<>> THEN "EOF" ELSE "unexpected EOF"]
                /\ UNCHANGED formats
    /\ UNCHANGED <<HandoffFrame, wire, peerClosed, stdin, calls, script>>

InitHandoff ==
    /\ harness = "handoff"
    /\ pc = [d \in Procs |-> "unborn"]
    /\ ret = [d \in Procs |-> "none"]
    /\ formats = [d \in Procs |-> <<>>]
    /\ todo = [d \in Procs |-> {}]
    /\ conn = [d \in Procs |-> NoConn]
    /\ names = [d \in Procs |-> NoNames]
    /\ wire = [d \in Procs |-> <<>>]
    /\ peerClosed = [d \in Procs |-> FALSE]
    /\ sent = [d \in Procs |-> <<>>]
    /\ fds = <<>>
    /\ env = [XDG_RUNTIME_DIR |-> RuntimeDir, WAYLAND_DISPLAY |-> "wayland-1"]
    /\ listen = <<RuntimeDir, "wayland-1">>
    /\ script = [payload |-> <<>>, written |-> 0, copy |-> "idle",
                 parent |-> "running"]
    /\ comp = NoCompositor
    /\ reqs = [d \in Procs |-> <<>>]
    /\ offered = [d \in Procs |-> {}]
    /\ calls = [c \in Procs |-> NoCall]
    /\ clipWrites = <<>>
    /\ stdin = [d \in Procs |-> <<>>]

NextHandoff ==
    \/ StartChild(TestProc)
    \/ StdinCopy(TestProc)
    \/ StdinCopyDone(TestProc)
    \/ StartReturns(TestProc)
    \/ ParentExit(TestProc)
    \/ ChildRead(TestProc)
    \/ ChildDecode(TestProc)

SpecHandoff == InitHandoff /\ [][NextHandoff]_vars

\* C33: in every interleaving of the parent and the child, also when the
\* parent exits right after WriteMultiFormat returns, the child receives the
\* complete serialized payload: when its decoder returns, it returns the two
\* strings the parent passed, never an error for an empty or truncated input.
C33_ChildDecodesTheCompletePayload ==
    \A d \in Procs :
        pc[d] \in {"entry", "done"} =>
            /\ ret[d] = "none"
            /\ stdin[d] = script.payload
            /\ formats[d] = ServeClipboard(calls[d].html, calls[d].plain)

\* Daemon d is through its handshake: the done of callback 2 was read.
HandshakeDone(d) == pc[d] = "serve" \/ (pc[d] = "done" /\ ret[d] = "nil")

\* C34: after two WriteMultiFormat calls a then b on a Wayland session, once
\* both daemons have completed their handshakes the selection is owned by the
\* daemon of the later call b, whatever the interleaving of the two
\* handshakes: the daemon of the earlier call is not the final owner.
C34_LaterCallOwnsTheSelection ==
    \A a, b \in Procs :
        (/\ a < b
         /\ calls[a].state = "returned" /\ calls[b].state = "returned"
         /\ \A c \in Procs \ {a, b} : calls[c].state = "idle"
         /\ HandshakeDone(a) /\ HandshakeDone(b)
         /\ \A d \in Procs : reqs[d] = <<>>) =>
            comp.owner = b

\* The buffer starts with a complete header whose size field is below 8.
ShortSizeBuffered(c) ==
    /\ Len(c.inBuf) >= 8
    /\ leUint32(SubSeq(c.inBuf, 5, 8)) \div 65536 < 8

\* C35: when the buffered header declares a total size below 8, readMsg
\* returns an error: from there it does not receive again, and its buffer
\* does not grow.
C35_ShortSizeHeaderIsAnError ==
    [][ShortSizeBuffered(conn[TestProc]) /\ pc[TestProc] = "readMsg" =>
          /\ pc'[TestProc] = "done" /\ ret'[TestProc] # "none"
          /\ script'.recvs = script.recvs
          /\ conn'[TestProc].inBuf = conn[TestProc].inBuf]_vars

(***************************************************************************)
(* sendMsg byte by byte, for arguments of any length.  script holds the    *)
(* call's object id, opcode and the length of the MIME type whose encoding *)
(* is the argument; reqs[d] is buf, sent[d] the bytes written to the       *)
(* socket.                                                                 *)
(***************************************************************************)
\* Number of values of a uint16.
Uint16Range == 65536

\* A MIME type of n bytes.
LongMime(n) == [i \in 1..n |-> 97]

\* The argument of the call: the encoded MIME type.
SendArgs == encodeString(LongMime(script.mimeLen))

\* le.PutUint32(buf[4:], uint32(opcode)|uint32(size)<<16), both halves 16 bits
\* wide.
sizeOpcodeBytes(opcode, size) ==
    <<opcode % 256, (opcode \div 256) % 256, size % 256, (size \div 256) % 256>>

\* The opcode and size fields of a frame's header.
OpcodeField(frame) == frame[5] + 256 * frame[6]
SizeField(frame) == frame[7] + 256 * frame[8]

\* sendMsg up to syscall.Write: size is truncated to 16 bits, buf has size
\* bytes, the two header words are stored (which panics when buf is shorter
\* than 8 bytes) and copy moves as many argument bytes as fit.
sendMsgBuf(objectID, opcode, args) ==
    LET size == (8 + Len(args)) % Uint16Range
    IN  IF size < 8
        THEN [panic |-> TRUE, buf |-> <<>>]
        ELSE [panic |-> FALSE,
              buf |-> encodeUint32(objectID)
                      \o sizeOpcodeBytes(opcode, size)
                      \o SubSeq(args, 1, size - 8)]

SendFrame == <<formats, todo, conn, names, wire, peerClosed, fds, envVars,
               script, comp, offered, launchVars>>

SendMsgBuild(d) ==
    /\ harness = "send"
    /\ pc[d] = "sendMsg"
    /\ LET b == sendMsgBuf(script.objectID, script.opcode, SendArgs)
       IN  IF b.panic
           THEN /\ pc' = [pc EXCEPT ![d] = "done"]
                /\ ret' = [ret EXCEPT ![d] = "panic"]
                /\ UNCHANGED reqs
           ELSE /\ pc' = [pc EXCEPT ![d] = "write"]
                /\ reqs' = [reqs EXCEPT ![d] = b.buf]
                /\ UNCHANGED ret
    /\ UNCHANGED <<SendFrame, sent>>

\* syscall.Write(c.fd, buf) and the return of its error.
SendMsgWrite(d) ==
    /\ harness = "send"
    /\ pc[d] = "write"
    /\ \E ok \in BOOLEAN :
          /\ sent' = [sent EXCEPT ![d] = IF ok THEN reqs[d] ELSE @]
          /\ ret' = [ret EXCEPT ![d] = IF ok THEN "nil" ELSE "write"]
    /\ pc' = [pc EXCEPT ![d] = "done"]
    /\ UNCHANGED <<SendFrame, reqs>>

\* MIME types of a few bytes, and those whose frames are 8, 4, 0 and -4 bytes
\* past the largest size 16 bits can hold.
MimeLengths ==
    (0..MaxLen) \cup {Uint16Range - 5 - 4 * k : k \in 0..3}

InitSend ==
    /\ harness = "send"
    /\ pc = [d \in Procs |-> IF d = TestProc THEN "sendMsg" ELSE "unborn"]
    /\ ret = [d \in Procs |-> "none"]
    /\ formats = [d \in Procs |-> <<>>]
    /\ todo = [d \in Procs |-> {}]
    /\ conn = [d \in Procs |-> IF d = TestProc THEN newConn(TRUE, TRUE) ELSE NoConn]
    /\ names = [d \in Procs |-> NoNames]
    /\ wire = [d \in Procs |-> <<>>]
    /\ peerClosed = [d \in Procs |-> FALSE]
    /\ sent = [d \in Procs |-> <<>>]
    /\ fds = <<>>
    /\ env = [XDG_RUNTIME_DIR |-> RuntimeDir, WAYLAND_DISPLAY |-> ""]
    /\ listen = <<RuntimeDir, "wayland-0">>
    /\ \E o \in {idRegistry, idDCManager, idDCSource, idDCDevice}, op \in 0..2,
          n \in MimeLengths :
          script = [objectID |-> o, opcode |-> op, mimeLen |-> n]
    /\ comp = NoCompositor
    /\ reqs = [d \in Procs |-> <<>>]
    /\ offered = [d \in Procs |-> {}]
    /\ calls = [c \in Procs |-> NoCall]
    /\ clipWrites = <<>>
    /\ stdin = [d \in Procs |-> <<>>]

NextSend ==
    \/ SendMsgBuild(TestProc)
    \/ SendMsgWrite(TestProc)

SpecSend == InitSend /\ [][NextSend]_vars

\* C36: what sendMsg writes is the 8-byte header (object id, then opcode in
\* the low and total size in the high 16 bits of the second word) followed by
\* all argument bytes; the size field is 8 + len(args) and is the number of
\* bytes written, whatever the length of the arguments.
C36_FrameCarriesAllArgumentsAndItsSize ==
    \A d \in Procs :
        pc[d] = "done" /\ ret[d] = "nil" =>
                  /\ Len(sent[d]) >= 8
                  /\ SubSeq(sent[d], 1, 4) = encodeUint32(script.objectID)
                  /\ OpcodeField(sent[d]) = script.opcode
                  /\ SubSeq(sent[d], 9, Len(sent[d])) = SendArgs
                  /\ SizeField(sent[d]) = 8 + Len(SendArgs)
                  /\ SizeField(sent[d]) = Len(sent[d])

(***************************************************************************)
(* The Spinner used from several goroutines.  Each caller makes up to      *)
(* MaxOps calls of Start or Stop.  A section of code that holds s.mu is    *)
(* one step.  Here                                                         *)
(*   script   the Spinner: running, stopChan (0 is nil, channels are       *)
(*            numbered as Start makes them), how often each channel was    *)
(*            closed, frameIndex, the WaitGroup's counter                  *)
(*   pc[g]    where caller g is inside Start or Stop                       *)
(*   calls[g] the number of calls g has made and the channel its Start     *)
(*            made                                                         *)
(*   fds      the animate goroutines started so far                        *)
(*   comp     the writer: frames written, frames written while a returned  *)
(*            Stop was the latest call (late), and that condition (quiet)  *)
(* animate reads s.stopChan without holding s.mu: it reads the channel of  *)
(* the Start that started it, or of any later Start.                       *)
(***************************************************************************)
SpinnerFrame == <<ret, formats, todo, conn, names, wire, peerClosed, sent,
                  envVars, reqs, offered, clipWrites, stdin>>

\* Spinner.Start up to s.mu.Unlock().
SpinnerStart(g) ==
    /\ harness = "spinner"
    /\ pc[g] = "idle"
    /\ calls[g].ops < MaxOps
    /\ IF script.running
       THEN /\ calls' = [calls EXCEPT ![g].ops = @ + 1]
            /\ UNCHANGED <<pc, script>>
       ELSE /\ script' = [script EXCEPT !.running = TRUE,
                                        !.stopChan = Len(script.closes) + 1,
                                        !.closes = Append(@, 0)]
            /\ calls' = [calls EXCEPT ![g] = [ops |-> @.ops + 1,
                                              made |-> Len(script.closes) + 1]]
            /\ pc' = [pc EXCEPT ![g] = "add"]
    /\ comp' = [comp EXCEPT !.quiet = FALSE]
    /\ UNCHANGED <<SpinnerFrame, fds>>

\* s.wg.Add(1)
SpinnerAdd(g) ==
    /\ harness = "spinner"
    /\ pc[g] = "add"
    /\ script' = [script EXCEPT !.wg = @ + 1]
    /\ pc' = [pc EXCEPT ![g] = "go"]
    /\ UNCHANGED <<SpinnerFrame, fds, calls, comp>>

\* go s.animate()
SpinnerGo(g) ==
    /\ harness = "spinner"
    /\ pc[g] = "go"
    /\ fds' = Append(fds, [pc |-> "select", seen |-> calls[g].made])
    /\ pc' = [pc EXCEPT ![g] = "idle"]
    /\ UNCHANGED <<SpinnerFrame, script, calls, comp>>

\* Spinner.Stop up to s.mu.Unlock().
SpinnerStop(g) ==
    /\ harness = "spinner"
    /\ pc[g] = "idle"
    /\ calls[g].ops < MaxOps
    /\ calls' = [calls EXCEPT ![g].ops = @ + 1]
    /\ IF ~script.running
       THEN /\ comp' = [comp EXCEPT !.quiet = TRUE]
            /\ UNCHANGED <<pc, script>>
       ELSE /\ script' = [script EXCEPT !.running = FALSE,
                                        !.closes[script.stopChan] = @ + 1]
            /\ pc' = [pc EXCEPT ![g] = "wait"]
            /\ UNCHANGED comp
    /\ UNCHANGED <<SpinnerFrame, fds>>

\* s.wg.Wait()
StopWait(g) ==
    /\ harness = "spinner"
    /\ pc[g] = "wait"
    /\ script.wg = 0
    /\ pc' = [pc EXCEPT ![g] = "clear"]
    /\ UNCHANGED <<SpinnerFrame, fds, script, calls, comp>>

\* The line is cleared and Stop returns.
StopClear(g) ==
    /\ harness = "spinner"
    /\ pc[g] = "clear"
    /\ pc' = [pc EXCEPT ![g] = "idle"]
    /\ comp' = [comp EXCEPT !.quiet = TRUE]
    /\ UNCHANGED <<SpinnerFrame, fds, script, calls>>

\* animate's select takes `case <-s.stopChan`: the channel it reads is closed.
AnimateStopped(a) ==
    /\ harness = "spinner"
    /\ a \in DOMAIN fds
    /\ fds[a].pc = "select"
    /\ \E ch \in fds[a].seen..script.stopChan : script.closes[ch] >= 1
    /\ fds' = [fds EXCEPT ![a].pc = "return"]
    /\ UNCHANGED <<SpinnerFrame, pc, script, calls, comp>>

\* animate's select takes `case <-ticker.C`, up to s.mu.Unlock().
AnimateTick(a) ==
    /\ harness = "spinner"
    /\ a \in DOMAIN fds
    /\ fds[a].pc = "select"
    /\ script.running => comp.frames < MaxFrames
    /\ IF ~script.running
       THEN /\ fds' = [fds EXCEPT ![a].pc = "return"]
            /\ UNCHANGED script
       ELSE /\ fds' = [fds EXCEPT ![a] = [pc |-> "print", seen |-> script.stopChan]]
            /\ script' = [script EXCEPT !.frameIndex = @ + 1]
    /\ UNCHANGED <<SpinnerFrame, pc, calls, comp>>

\* fmt.Fprintf(s.writer, "\r%s %s", frame, message)
AnimatePrint(a) ==
    /\ harness = "spinner"
    /\ a \in DOMAIN fds
    /\ fds[a].pc = "print"
    /\ comp' = [comp EXCEPT !.frames = @ + 1,
                            !.late = IF comp.quiet THEN @ + 1 ELSE @]
    /\ fds' = [fds EXCEPT ![a].pc = "select"]
    /\ UNCHANGED <<SpinnerFrame, pc, script, calls>>

\* animate returns: the deferred ticker.Stop() and s.wg.Done().
AnimateReturn(a) ==
    /\ harness = "spinner"
    /\ a \in DOMAIN fds
    /\ fds[a].pc = "return"
    /\ script' = [script EXCEPT !.wg = @ - 1]
    /\ fds' = [fds EXCEPT ![a].pc = "exited"]
    /\ UNCHANGED <<SpinnerFrame, pc, calls, comp>>

\* Every Start call starts at most one animate goroutine.
AnimateIds == 1..(MaxCalls * MaxOps)

animate(a) ==
    \/ AnimateStopped(a)
    \/ AnimateTick(a)
    \/ AnimatePrint(a)
    \/ AnimateReturn(a)

\* NewSpinner.
InitSpinner ==
    /\ harness = "spinner"
    /\ pc = [g \in Procs |-> "idle"]
    /\ script = [running |-> FALSE, stopChan |-> 0, closes |-> <<>>,
                 frameIndex |-> 0, wg |-> 0]
    /\ calls = [g \in Procs |-> [ops |-> 0, made |-> 0]]
    /\ fds = <<>>
    /\ comp = [frames |-> 0, late |-> 0, quiet |-> FALSE]
    /\ ret = [d \in Procs |-> "none"]
    /\ formats = [d \in Procs |-> <<>>]
    /\ todo = [d \in Procs |-> {}]
    /\ conn = [d \in Procs |-> NoConn]
    /\ names = [d \in Procs |-> NoNames]
    /\ wire = [d \in Procs |-> <<>>]
    /\ peerClosed = [d \in Procs |-> FALSE]
    /\ sent = [d \in Procs |-> <<>>]
    /\ env = [XDG_RUNTIME_DIR |-> RuntimeDir, WAYLAND_DISPLAY |-> ""]
    /\ listen = <<RuntimeDir, "wayland-0">>
    /\ reqs = [d \in Procs |-> <<>>]
    /\ offered = [d \in Procs |-> {}]
    /\ clipWrites = <<>>
    /\ stdin = [d \in Procs |-> <<>>]

NextSpinner ==
    \/ \E g \in Procs : SpinnerStart(g)
    \/ \E g \in Procs : SpinnerAdd(g)
    \/ \E g \in Procs : SpinnerGo(g)
    \/ \E g \in Procs : SpinnerStop(g)
    \/ \E g \in Procs : StopWait(g)
    \/ \E g \in Procs : StopClear(g)
    \/ \E a \in AnimateIds : animate(a)

SpecSpinner == InitSpinner /\ [][NextSpinner]_vars

\* The animate goroutines that have been started and have not returned.
Animating == {a \in DOMAIN fds : fds[a].pc # "exited"}

AtMostOneAnimate == Cardinality(Animating) <= 1
StopChanClosedOnce == \A ch \in DOMAIN script.closes : script.closes[ch] <= 1
NoFrameAfterStopReturned == comp.late = 0

\* C37: under any interleaving of Start and Stop calls from several
\* goroutines, at most one animate goroutine is running at any time, no
\* stopChan is closed twice, and no frame is written after a Stop call has
\* returned and before the next Start.
C37_SpinnerIsSafeUnderConcurrentCalls ==
    /\ AtMostOneAnimate
    /\ StopChanClosedOnce
    /\ NoFrameAfterStopReturned

(***************************************************************************)
(* The ProgressBar incremented from several goroutines, each making up to  *)
(* MaxOps calls of Increment.  A section under pb.mu is one step.  Here    *)
(*   script     the bar: current, total, width                             *)
(*   pc[g]      where goroutine g is inside Increment                      *)
(*   calls[g]   the calls g has completed and its local variable current   *)
(*   clipWrites the line last written: the count shown and the filled part *)
(***************************************************************************)
BarFrame == <<ret, formats, todo, conn, names, wire, peerClosed, sent, fds,
              envVars, comp, reqs, offered, stdin>>

\* Increment up to its pb.mu.Unlock(): current := pb.current + 1.
Increment(g) ==
    /\ harness = "bar"
    /\ pc[g] = "idle"
    /\ calls[g].ops < MaxOps
    /\ calls' = [calls EXCEPT ![g].current = script.current + 1]
    /\ pc' = [pc EXCEPT ![g] = "update"]
    /\ UNCHANGED <<BarFrame, script, clipWrites>>

\* int(percent * float64(pb.width)), capped at the width.
Filled(current, total, width) ==
    IF (current * width) \div total > width THEN width
    ELSE (current * width) \div total

\* pb.Update(current), and the return of Increment.
Update(g) ==
    /\ harness = "bar"
    /\ pc[g] = "update"
    /\ script' = [script EXCEPT !.current = calls[g].current]
    /\ clipWrites' = IF script.total <= 0 THEN clipWrites
                     ELSE <<[current |-> calls[g].current,
                             filled |-> Filled(calls[g].current, script.total,
                                               script.width)]>>
    /\ calls' = [calls EXCEPT ![g].ops = @ + 1]
    /\ pc' = [pc EXCEPT ![g] = "idle"]
    /\ UNCHANGED BarFrame

\* NewProgressBar(total, message).
InitBar ==
    /\ harness = "bar"
    /\ pc = [g \in Procs |-> "idle"]
    /\ \E total \in 0..MaxTotal :
          script = [current |-> 0, total |-> total, width |-> 40]
    /\ calls = [g \in Procs |-> [ops |-> 0, current |-> 0]]
    /\ clipWrites = <<>>
    /\ fds = <<>>
    /\ comp = NoCompositor
    /\ ret = [d \in Procs |-> "none"]
    /\ formats = [d \in Procs |-> <<>>]
    /\ todo = [d \in Procs |-> {}]
    /\ conn = [d \in Procs |-> NoConn]
    /\ names = [d \in Procs |-> NoNames]
    /\ wire = [d \in Procs |-> <<>>]
    /\ peerClosed = [d \in Procs |-> FALSE]
    /\ sent = [d \in Procs |-> <<>>]
    /\ env = [XDG_RUNTIME_DIR |-> RuntimeDir, WAYLAND_DISPLAY |-> ""]
    /\ listen = <<RuntimeDir, "wayland-0">>
    /\ reqs = [d \in Procs |-> <<>>]
    /\ offered = [d \in Procs |-> {}]
    /\ stdin = [d \in Procs |-> <<>>]

NextBar ==
    \/ \E g \in Procs : Increment(g)
    \/ \E g \in Procs : Update(g)

SpecBar == InitBar /\ [][NextBar]_vars

\* The number of Increment calls that have returned.
Returned ==
    LET RECURSIVE sum(_)
        sum(g) == IF g \notin Procs THEN 0 ELSE calls[g].ops + sum(g + 1)
    IN  sum(1)

\* C38: when the Increment calls made concurrently from several goroutines
\* have all returned, the bar's current value has advanced by exactly their
\* number: no increment is lost.
C38_NoIncrementIsLost ==
    (\A g \in Procs : pc[g] = "idle") => script.current = Returned

(***************************************************************************)
(* A bulk client operation, BulkMergePullRequests: one goroutine per       *)
(* request, a buffered channel of capacity maxWorkers as semaphore, a      *)
(* WaitGroup.  Requests are numbered from 1.  Here                         *)
(*   script       maxWorkers, the number of requests, the next request of  *)
(*                the loop, the number of values in the semaphore          *)
(*                channel, the WaitGroup's counter, the results slice (0   *)
(*                in a slot nothing was stored in, else how often it was   *)
(*                stored and the index and error stored)                   *)
(*   pc[TestProc] the caller: "loop", "wait", "returned"                   *)
(*   fds          the goroutines, by request                               *)
(***************************************************************************)
BulkFrame == <<ret, formats, todo, conn, names, wire, peerClosed, sent,
               envVars, comp, reqs, offered, launchVars>>

Requests == 1..MaxRequests

NoResult == [stores |-> 0, Index |-> 0, Error |-> "none"]

\* One turn of the loop over requests: wg.Add(1) and the go statement.
BulkSpawn ==
    /\ harness = "bulk"
    /\ pc[TestProc] = "loop"
    /\ script.i <= script.n
    /\ script' = [script EXCEPT !.i = @ + 1, !.wg = @ + 1]
    /\ fds' = [fds EXCEPT ![script.i] = "acquire"]
    /\ UNCHANGED <<BulkFrame, pc>>

\* The loop is over: the caller reaches wg.Wait().
BulkLoopEnd ==
    /\ harness = "bulk"
    /\ pc[TestProc] = "loop"
    /\ script.i > script.n
    /\ pc' = [pc EXCEPT ![TestProc] = "wait"]
    /\ UNCHANGED <<BulkFrame, script, fds>>

\* wg.Wait() returns, and the operation returns results.
BulkWait ==
    /\ harness = "bulk"
    /\ pc[TestProc] = "wait"
    /\ script.wg = 0
    /\ pc' = [pc EXCEPT ![TestProc] = "returned"]
    /\ UNCHANGED <<BulkFrame, script, fds>>

\* `semaphore <- struct{}{}`: the send completes when the channel's buffer
\* has room; a channel of capacity 0 has no receiver waiting, so it never
\* does.
Acquire(i) ==
    /\ harness = "bulk"
    /\ fds[i] = "acquire"
    /\ script.semaphore < script.maxWorkers
    /\ script' = [script EXCEPT !.semaphore = @ + 1]
    /\ fds' = [fds EXCEPT ![i] = "call"]
    /\ UNCHANGED <<BulkFrame, pc>>

\* c.MergePullRequest returns and results[index] is assigned.
MergeCall(i) ==
    /\ harness = "bulk"
    /\ fds[i] = "call"
    /\ \E err \in {"nil", "error"} :
          script' = [script EXCEPT !.results[i] =
                       [stores |-> @.stores + 1, Index |-> i, Error |-> err]]
    /\ fds' = [fds EXCEPT ![i] = "release"]
    /\ UNCHANGED <<BulkFrame, pc>>

\* The deferred `<-semaphore` and wg.Done().
WorkerReturn(i) ==
    /\ harness = "bulk"
    /\ fds[i] = "release"
    /\ script' = [script EXCEPT !.semaphore = @ - 1, !.wg = @ - 1]
    /\ fds' = [fds EXCEPT ![i] = "done"]
    /\ UNCHANGED <<BulkFrame, pc>>

Worker(i) ==
    \/ Acquire(i)
    \/ MergeCall(i)
    \/ WorkerReturn(i)

BulkMergePullRequests ==
    \/ BulkSpawn
    \/ BulkLoopEnd
    \/ BulkWait

\* The call: some requests, some maxWorkers; results has one slot per request.
InitBulk ==
    /\ harness = "bulk"
    /\ pc = [g \in Procs |-> IF g = TestProc THEN "loop" ELSE "unborn"]
    /\ \E n \in 0..MaxRequests, w \in 0..MaxWorkers :
          script = [maxWorkers |-> w, n |-> n, i |-> 1, semaphore |-> 0, wg |-> 0,
                    results |-> [k \in 1..n |-> NoResult]]
    /\ fds = [k \in Requests |-> "unborn"]
    /\ calls = [c \in Procs |-> NoCall]
    /\ clipWrites = <<>>
    /\ comp = NoCompositor
    /\ ret = [d \in Procs |-> "none"]
    /\ formats = [d \in Procs |-> <<>>]
    /\ todo = [d \in Procs |-> {}]
    /\ conn = [d \in Procs |-> NoConn]
    /\ names = [d \in Procs |-> NoNames]
    /\ wire = [d \in Procs |-> <<>>]
    /\ peerClosed = [d \in Procs |-> FALSE]
    /\ sent = [d \in Procs |-> <<>>]
    /\ env = [XDG_RUNTIME_DIR |-> RuntimeDir, WAYLAND_DISPLAY |-> ""]
    /\ listen = <<RuntimeDir, "wayland-0">>
    /\ reqs = [d \in Procs |-> <<>>]
    /\ offered = [d \in Procs |-> {}]
    /\ stdin = [d \in Procs |-> <<>>]

NextBulk ==
    \/ BulkMergePullRequests
    \/ \E i \in Requests : Worker(i)

\* Every goroutine that can take a step eventually takes one.
FairBulk ==
    /\ InitBulk /\ [][NextBulk]_vars
    /\ WF_vars(BulkMergePullRequests)
    /\ \A i \in Requests : WF_vars(Worker(i))

\* The goroutines whose API call is in flight.
InFlight == {i \in Requests : fds[i] = "call"}

BulkNeverExceedsMaxWorkers == Cardinality(InFlight) <= script.maxWorkers

BulkReturnsCompleteResults ==
    pc[TestProc] = "returned" =>
        /\ \A i \in 1..script.n : fds[i] = "done"
        /\ \A i \in 1..script.n :
              script.results[i].stores = 1 /\ script.results[i].Index = i

BulkTerminates == <>(pc[TestProc] = "returned")

\* Termination when the semaphore has room for at least one worker.
BulkTerminatesWithWorkers ==
    script.maxWorkers >= 1 => <>(pc[TestProc] = "returned")

\* C39: the bulk operation never has more than maxWorkers API calls in
\* flight, returns only after the call of every request has completed, with
\* exactly one result per request at that request's index, and it terminates
\* for every maxWorkers it can be called with, 0 included.
C39_BulkOperationIsBoundedCompleteAndTerminates ==
    /\ []BulkNeverExceedsMaxWorkers
    /\ []BulkReturnsCompleteResults
    /\ BulkTerminates

(***************************************************************************)
(* decodeString on bytes of any shape: script.enc is the data it is given, *)
(* a length field followed by some bytes, or fewer than 4 bytes.           *)
(***************************************************************************)
\* Declared lengths: zero, lengths around those of the bytes that follow, and
\* one far beyond them.
DeclaredLengths == (0..(MaxLen + 2)) \cup {Uint16Range - 1}

DecodeInputs ==
    {str \in Strings : Len(str) < 4}
    \cup {encodeUint32(n) \o body : n \in DeclaredLengths, body \in Strings}

InitDecode ==
    /\ harness = "codec"
    /\ pc = [d \in Procs |-> IF d = TestProc THEN "decodeString" ELSE "unborn"]
    /\ ret = [d \in Procs |-> "none"]
    /\ formats = [d \in Procs |-> <<>>]
    /\ todo = [d \in Procs |-> {}]
    /\ conn = [d \in Procs |-> NoConn]
    /\ names = [d \in Procs |-> NoNames]
    /\ wire = [d \in Procs |-> <<>>]
    /\ peerClosed = [d \in Procs |-> FALSE]
    /\ \E data \in DecodeInputs :
          script = [s |-> <<>>, enc |-> data, dec |-> NoDecoded]
    /\ sent = [d \in Procs |-> <<>>]
    /\ fds = <<>>
    /\ env = [XDG_RUNTIME_DIR |-> RuntimeDir, WAYLAND_DISPLAY |-> ""]
    /\ listen = <<RuntimeDir, "wayland-0">>
    /\ comp = NoCompositor
    /\ reqs = [d \in Procs |-> <<>>]
    /\ offered = [d \in Procs |-> {}]
    /\ calls = [c \in Procs |-> NoCall]
    /\ clipWrites = <<>>
    /\ stdin = [d \in Procs |-> <<>>]

NextDecode == DecodeString(TestProc)

SpecDecode == InitDecode /\ [][NextDecode]_vars

\* The data has a length field, and the length it declares.
HasLengthField(data) == Len(data) >= 4
Declared(data) == leUint32(SubSeq(data, 1, 4))

\* C40: decodeString returns an error and no string when fewer than 4 bytes
\* are there for the length field, or when the declared length rounded up to
\* a multiple of 4 exceeds the bytes after the length field; for a declared
\* length of 0 it returns the empty string with no error and consumes exactly
\* the 4 bytes of the length field.
C40_DecodeStringErrorsAndEmptyString ==
    pc[TestProc] = "done" =>
        LET data == script.enc
            dec == script.dec
        IN  /\ ~HasLengthField(data) => dec.err /\ dec.s = <<>>
            /\ (HasLengthField(data) /\ Align4(Declared(data)) > Len(data) - 4) =>
                  dec.err /\ dec.s = <<>>
            /\ (HasLengthField(data) /\ Declared(data) = 0) =>
                  /\ ~dec.err /\ dec.s = <<>>
                  /\ dec.rest = SubSeq(data, 5, Len(data))

\* decodeString was given a length field of 3 followed by exactly 3 bytes:
\* the string and its terminator are there, the padding is not, and it
\* returned an error.
C40_Witness ==
    /\ pc[TestProc] = "done"
    /\ Len(script.enc) = 7
    /\ Declared(script.enc) = 3
    /\ script.enc[7] = 0
    /\ script.dec.err

====
